---- MODULE Spec2Model ----
(***************************************************************************)
(* Model of the multi-repository processing core of github-config-manager: *)
(* core/main_processor.py (process_repositories, the pool worker, the      *)
(* status tracker, the abort listener) and utils/logs.py (the per-group    *)
(* log collector and the console stream).                                  *)
(*                                                                         *)
(* The per-repository operation (single_repo_processor_func) is a callable *)
(* handed to process_repositories: it appends messages to its repository's *)
(* log group while it runs and ends by returning True, returning False or  *)
(* raising an Exception.                                                   *)
(*                                                                         *)
(* The operation main() hands over, process_single_repository of           *)
(* core/github_operations.py, is followed command by command in RepoSpec.  *)
(* TwiceSpec calls it a second time on the same repository. HangSpec and  *)
(* TerminalSpec add fair scheduling, an operation that hangs and the reads *)
(* of the abort listener; EndSpec is the fair run in which every operation *)
(* ends. LockSpec follows the threads through the locks of the trackers.   *)
(***************************************************************************)
EXTENDS Integers, Sequences, FiniteSets, TLC

\* ------------------------------------------------------------------ bounds
\* Longest repository list that is explored.
MaxRepos == 3
\* Largest config.max_workers that is explored.
MaxWorkers == 2
\* Most messages one call of the per-repository operation appends.
MaxMsgs == 1
\* Most lines of the --tr file that name the same repository.
MaxCopies == 2
\* Longest repository list explored together with the start of main().
MainMaxRepos == 2
\* Largest --sleep argument that is explored.
MaxSleep == 1
\* Threads that call the trackers directly, and calls they make in all.
MaxThreads == 2
MaxCalls == 4

\* Repository names; a list uses them in order of first occurrence, so that
\* lists which differ only by a renaming are explored once.
RepoNames == <<"r1", "r2", "r3", "r4">>

NameIndex(n) == CHOOSE m \in 1..Len(RepoNames) : RepoNames[m] = n

Canonical(s) ==
    \A p \in 1..Len(s) :
        NameIndex(s[p]) > 1 =>
            \E q \in 1..(p - 1) : NameIndex(s[q]) = NameIndex(s[p]) - 1

\* config.repositories as main() builds it from the --tr file: any non-empty
\* list of names, a name possibly on several lines.
RepoLists ==
    { s \in UNION { [1..n -> {RepoNames[m] : m \in 1..Len(RepoNames)}] : n \in 1..MaxRepos } :
        /\ Canonical(s)
        /\ \A p \in 1..Len(s) :
              Cardinality({q \in 1..Len(s) : s[q] = s[p]}) <= MaxCopies }

\* ------------------------------------------------------------------- state
VARIABLES
    repositories,          \* config.repositories
    max_workers,           \* config.max_workers
    stop_event,            \* config.stop_event (threading.Event)
    repo_statuses,         \* _repo_statuses: name -> [success, status]
    initial_total_repos_count, \* _initial_total_repos_count
    all_group_logs,        \* _all_group_logs: name -> sequence of messages
    stdout,                \* lines written to sys.stdout, in order (see below)
    pc,                    \* position of the thread running process_repositories
    i,                     \* index of the sequential / submission loop (1-based)
    cur,                   \* list position whose result is being handled
    it,                    \* index of the iterator over the group's log list
    wpc,                   \* per list position: state of its pool task
    result,                \* per list position: value of its future
    completed_repos_count, \* AtomicInteger of the pooled mode
    listener,              \* position of the abort listener thread
    opStart,               \* per position: flag value when the operation began
    ret,                   \* per position: how the operation ended
    nlogs,                 \* per position: messages the operation appended
    flushed,               \* per position: clear_group_log_entries calls made for it
    abortAt,               \* loop index at which the scheduler read the flag set
    stopWindow,            \* positions between flag check and call when the flag was set
    sleep_after_repo,      \* config.sleep_after_repo
    main_exit,             \* how main() ended before scheduling, "none" if it did not
    tpc,                   \* per calling thread: its position inside a tracker call
    tcall,                 \* per calling thread: the tracker call it is inside
    status_lock,           \* _status_lock: the thread that holds it, 0 when free
    last,                  \* the tracker call that returned last, with the state before it
    seq_statuses,          \* the tracker calls so far applied one at a time: the map
    seq_total,             \* ... and the total count
    appended,              \* per group: messages add_log_entry was given since its last reset
    ncalls,                \* tracker calls made so far
    repo_content,          \* the repository on GitHub: kind -> name -> value, "absent" if none
    delete_list,           \* kind -> delete_secrets_list / delete_variables_list
    to_set,                \* kind -> secrets_to_set_dict / variables_to_set_dict ("none": no key)
    force,                 \* the force argument
    rpc,                   \* position inside process_single_repository
    item_type,             \* the item type the current step works on
    existing,              \* kind -> existing_secrets / existing_variables
    handled,               \* names the current loop has gone through
    overall_success,       \* overall_success
    gh_calls,              \* gh commands run so far, each with how it ended
    op_log,                \* kinds of message the task has logged
    op_result,             \* how process_single_repository ended, "none" while it runs
    hung,                  \* list position whose operation never returns, 0 if none
    isatty,                \* sys.stdin.isatty()
    stdin,                 \* what the terminal delivers to the next input() call
    run,                   \* which call of process_single_repository is followed, 0 if none
    first_content,         \* the repository as the first call left it
    first_result,          \* how the first call ended
    log_lock,              \* _log_lock: the thread that holds it, 0 when free
    counter_lock           \* the RLock of completed_repos_count: its holder, 0 when free

\* State of main() before process_repositories is called.
mainVars == << sleep_after_repo, main_exit >>

\* State of the threads that call the two trackers directly.
apiVars == << tpc, tcall, status_lock, last, seq_statuses, seq_total, appended,
              ncalls >>

\* State of one call of process_single_repository and of the repository it
\* works on.
opVars == << repo_content, delete_list, to_set, force, rpc, item_type, existing,
             handled, overall_success, gh_calls, op_log, op_result, run,
             first_content, first_result >>

\* The call of process_single_repository that is followed, and what the call
\* before it left.
runVars == << run, first_content, first_result >>

\* The lock of the log collector and the lock of the completion counter.
lockVars == << log_lock, counter_lock >>

\* The terminal the abort listener reads, and the operation that hangs.
liveVars == << hung, isatty, stdin >>

vars == << repositories, max_workers, stop_event, repo_statuses,
           initial_total_repos_count, all_group_logs, stdout, pc, i, cur, it,
           wpc, result, completed_repos_count, listener, opStart, ret, nlogs,
           flushed, abortAt, stopWindow, mainVars, apiVars, opVars, lockVars, liveVars >>

\* stdout records the lines the properties speak about: the group messages the
\* scheduler prints when it flushes a group, the warnings of the two trackers
\* and the progress lines. Banners, prompts and the listener's notices are
\* printed by the code as well; they carry no state and are not recorded.

Positions == 1..Len(repositories)

None == "None"

\* A message: the group it was addressed to, the list position of the task
\* that produced it (0: the scheduler or the listener) and its text.
Msg(grp, src, txt) == [grp |-> grp, src |-> src, txt |-> txt]

Global(txt) == Msg(None, 0, txt)

\* -------------------------------------------------------------- logs.py
initialize_log_collector(group_names) ==
    [n \in {group_names[p] : p \in 1..Len(group_names)} |-> <<>>]

\* Variant of AddLogOut: a stored message is echoed to the console as well.
AddLogOutAlways(logs, out, group_name, message, store) ==
    IF store /\ group_name # None /\ group_name \notin DOMAIN logs
    THEN Append(out, Msg(None, 0, "WARN: Missing Log Group"))
    ELSE Append(out, message)

\* Variant of AddLogStore: a group that is missing is created.
AddLogStoreCreates(logs, group_name, message, store) ==
    IF store /\ group_name # None
    THEN [n \in DOMAIN logs \cup {group_name} |->
            IF n = group_name
            THEN (IF n \in DOMAIN logs THEN Append(logs[n], message)
                                       ELSE << message >>)
            ELSE logs[n]]
    ELSE logs

\* Variant of AddLogStore: one list is shared by all groups.
AddLogStoreShared(logs, group_name, message, store) ==
    IF store /\ group_name # None /\ group_name \in DOMAIN logs
    THEN [n \in DOMAIN logs |-> Append(logs[n], message)]
    ELSE logs

\* add_log_entry: the collector after the call ...
AddLogStore(logs, group_name, message, store) ==
    IF store /\ group_name # None /\ group_name \in DOMAIN logs
    THEN [logs EXCEPT ![group_name] = Append(@, message)]
    ELSE logs

\* add_log_entry: the console after the call.
AddLogOut(logs, out, group_name, message, store) ==
    IF store /\ group_name # None
    THEN IF group_name \notin DOMAIN logs
         THEN Append(out, Msg(None, 0, "WARN: Missing Log Group"))
         ELSE out
    ELSE Append(out, message)

get_group_log_entries(logs, group_name) ==
    IF group_name \in DOMAIN logs THEN logs[group_name] ELSE <<>>

ClearLogStore(logs, group_name) ==
    IF group_name \in DOMAIN logs
    THEN [logs EXCEPT ![group_name] = <<>>]
    ELSE logs

ClearLogOut(logs, out, group_name) ==
    IF group_name \in DOMAIN logs
    THEN out
    ELSE Append(out, Msg(None, 0, "WARN: Clear Logs"))

\* ------------------------------------------------------ status tracker
\* Variant of initialize_repository_statuses: the map is updated in place, the
\* entries it already holds are kept.
initialize_repository_statuses_keeps_entries(repos) ==
    [n \in {repos[p] : p \in 1..Len(repos)} \cup DOMAIN repo_statuses |->
        IF n \in DOMAIN repo_statuses
        THEN repo_statuses[n]
        ELSE [success |-> FALSE, status |-> "pending"]]

initialize_repository_statuses(repos) ==
    [n \in {repos[p] : p \in 1..Len(repos)} |->
        [success |-> FALSE, status |-> "pending"]]

\* Variant of set_repository_status: the lifecycle is written, the success
\* flag is not.
set_repository_status_keeps_success(statuses, repo_name, success) ==
    IF repo_name \in DOMAIN statuses
    THEN [statuses EXCEPT ![repo_name].status =
            IF success THEN "completed" ELSE "failed"]
    ELSE statuses

set_repository_status(statuses, repo_name, success) ==
    IF repo_name \in DOMAIN statuses
    THEN [statuses EXCEPT ![repo_name] =
            [success |-> success,
             status |-> IF success THEN "completed" ELSE "failed"]]
    ELSE statuses

SetStatusOut(statuses, out, repo_name) ==
    IF repo_name \in DOMAIN statuses
    THEN out
    ELSE Append(out, Msg(None, 0, "WARN: Status Update"))

\* Variant of set_repository_in_progress: the test is `not in progress`
\* instead of `pending`.
set_repository_in_progress_unless_running(statuses, repo_name) ==
    IF repo_name \in DOMAIN statuses /\ statuses[repo_name].status # "in_progress"
    THEN [statuses EXCEPT ![repo_name].status = "in_progress"]
    ELSE statuses

\* Variant of set_repository_in_progress: no test for Pending.
set_repository_in_progress_unguarded(statuses, repo_name) ==
    IF repo_name \in DOMAIN statuses
    THEN [statuses EXCEPT ![repo_name].status = "in_progress"]
    ELSE statuses

set_repository_in_progress(statuses, repo_name) ==
    IF repo_name \in DOMAIN statuses /\ statuses[repo_name].status = "pending"
    THEN [statuses EXCEPT ![repo_name].status = "in_progress"]
    ELSE statuses

get_repository_overall_status(statuses, repo_name) ==
    IF repo_name \in DOMAIN statuses THEN statuses[repo_name].success ELSE FALSE

get_current_progress_summary(statuses, total) ==
    << total,
       Cardinality({n \in DOMAIN statuses :
                        statuses[n].status \in {"completed", "failed"}}),
       Cardinality({n \in DOMAIN statuses : statuses[n].status = "in_progress"}) >>

\* ------------------------------------------------------------------ Init
Threads == 1..MaxThreads

\* No tracker call has been made besides those of process_repositories.
NoCall == [op |-> "none", name |-> None, arg |-> FALSE, statuses |-> << >>,
           total |-> 0, logs |-> << >>, out |-> << >>, result |-> FALSE]

ApiIdle ==
    /\ tpc = [t \in Threads |-> "idle"]
    /\ tcall = [t \in Threads |-> NoCall]
    /\ status_lock = 0
    /\ log_lock = 0
    /\ counter_lock = 0
    /\ last = NoCall
    /\ seq_statuses = << >>
    /\ seq_total = 0
    /\ appended = << >>
    /\ ncalls = 0

\* The two item types of a repository.
Kinds == {"secret", "variable"}

\* process_single_repository is not running.
OpIdle ==
    /\ repo_content = << >>
    /\ delete_list = << >>
    /\ to_set = << >>
    /\ force = FALSE
    /\ rpc = "idle"
    /\ item_type = "secret"
    /\ existing = << >>
    /\ handled = {}
    /\ overall_success = TRUE
    /\ gh_calls = << >>
    /\ op_log = {}
    /\ op_result = "none"
    /\ run = 0
    /\ first_content = << >>
    /\ first_result = "none"

\* Every operation returns; the listener's reads are not followed one by one.
LiveIdle ==
    /\ hung = 0
    /\ isatty = TRUE
    /\ stdin = "none"

\* The state when main() calls process_repositories: the module-level maps
\* are empty and the listener thread runs. The pause between two repositories
\* of the sequential mode only delays the loop; it is taken as the default 0.
Init ==
    /\ repositories \in RepoLists
    /\ max_workers \in 1..MaxWorkers
    /\ sleep_after_repo = 0
    /\ main_exit = "none"
    /\ ApiIdle
    /\ OpIdle
    /\ LiveIdle
    /\ stop_event = FALSE
    /\ repo_statuses = << >>
    /\ initial_total_repos_count = 0
    /\ all_group_logs = << >>
    /\ stdout = << >>
    /\ pc = "start"
    /\ i = 1
    /\ cur = 0
    /\ it = 0
    /\ wpc = [p \in Positions |-> "none"]
    /\ result = [p \in Positions |-> FALSE]
    /\ completed_repos_count = 0
    /\ listener = "listening"
    /\ opStart = [p \in Positions |-> "none"]
    /\ ret = [p \in Positions |-> "none"]
    /\ nlogs = [p \in Positions |-> 0]
    /\ flushed = [p \in Positions |-> 0]
    /\ abortAt = 0
    /\ stopWindow = {}


\* The thread that runs position p has read the flag clear (line 187 / 119)
\* and has not yet entered the operation (line 194 / 128).
PastCheck(p) ==
    \/ pc = "seq_call" /\ i = p
    \/ wpc[p] = "call"

\* ------------------------------------------------- the abort listener
\* _listen_for_user_stop_input, lines 53-72: the user types 'q' or the input
\* stream ends; the flag is set and the thread leaves its loop.
ListenerAbort(kind) ==
    /\ listener = "listening"
    /\ pc # "done"
    /\ kind \in {"q", "eof"}
    /\ stop_event' = TRUE
    /\ listener' = "stopped"
    /\ stopWindow' = {p \in Positions : PastCheck(p)}
    /\ UNCHANGED << opVars, lockVars, liveVars, mainVars, apiVars, repositories, max_workers, repo_statuses,
                    initial_total_repos_count, all_group_logs, stdout, pc, i,
                    cur, it, wpc, result, completed_repos_count, opStart, ret,
                    nlogs, flushed, abortAt >>

\* ------------------------------------------- process_repositories: entry
\* Lines 174-185 / 217-220: both maps are initialized and the mode is selected.
Begin ==
    /\ pc = "start"
    /\ repo_statuses' = initialize_repository_statuses(repositories)
    /\ initial_total_repos_count' = Len(repositories)
    /\ all_group_logs' = initialize_log_collector(repositories)
    /\ pc' = IF max_workers = 1
             THEN (IF Len(repositories) = 0 THEN "finish" ELSE "seq_check")
             ELSE (IF Len(repositories) = 0 THEN "pool_wait" ELSE "pool_submit")
    /\ i' = 1
    /\ completed_repos_count' = 0
    /\ UNCHANGED << opVars, lockVars, liveVars, mainVars, apiVars, stopWindow, repositories, max_workers, stop_event, stdout, cur, it, wpc,
                    result, listener, opStart, ret, nlogs, flushed, abortAt >>

\* ------------------------------------------------ the operation itself
\* The thread that is inside single_repo_processor_func for position p.
InOperation(p) ==
    \/ pc = "seq_op" /\ i = p
    \/ wpc[p] = "op"

\* One add_log_entry(repo_name, ...) made by the operation.
OpLog(p) ==
    /\ InOperation(p)
    /\ nlogs[p] < MaxMsgs
    /\ all_group_logs' = AddLogStore(all_group_logs, repositories[p],
                             Msg(repositories[p], p, "operation"), TRUE)
    /\ stdout' = AddLogOut(all_group_logs, stdout, repositories[p],
                             Msg(repositories[p], p, "operation"), TRUE)
    /\ nlogs' = [nlogs EXCEPT ![p] = @ + 1]
    /\ UNCHANGED << opVars, lockVars, liveVars, mainVars, apiVars, stopWindow, repositories, max_workers, stop_event, repo_statuses,
                    initial_total_repos_count, pc, i, cur, it, wpc, result,
                    completed_repos_count, listener, opStart, ret, flushed,
                    abortAt >>

\* How a call of the operation ends.
Outcomes == {"true", "false", "raise"}

\* The flag as a thread reads it.
FlagNow == IF stop_event THEN "set" ELSE "clear"

\* ----------------------------------------------------- sequential mode
\* Variant of SeqCheck: on abort the repository at hand is recorded as failed.
SeqCheckMarksFailed ==
    /\ pc = "seq_check"
    /\ IF stop_event
       THEN /\ pc' = "finish"
            /\ abortAt' = i
            /\ repo_statuses' = set_repository_status(repo_statuses, repositories[i], FALSE)
            /\ UNCHANGED << all_group_logs, stdout >>
       ELSE /\ all_group_logs' = AddLogStore(all_group_logs, repositories[i],
                   Msg(repositories[i], i, "Currently processing"), TRUE)
            /\ stdout' = AddLogOut(all_group_logs, stdout, repositories[i],
                   Msg(repositories[i], i, "Currently processing"), TRUE)
            /\ pc' = "seq_call"
            /\ UNCHANGED << abortAt, repo_statuses >>
    /\ UNCHANGED << opVars, lockVars, liveVars, mainVars, apiVars, stopWindow, repositories, max_workers, stop_event,
                    initial_total_repos_count, i, cur, it, wpc, result,
                    completed_repos_count, listener, opStart, ret, nlogs,
                    flushed >>

\* Lines 186-191: the flag is read; set: the loop is left; clear: the
\* repository's first message is stored.
SeqCheck ==
    /\ pc = "seq_check"
    /\ IF stop_event
       THEN /\ pc' = "finish"
            /\ abortAt' = i
            /\ UNCHANGED << all_group_logs, stdout >>
       ELSE /\ all_group_logs' = AddLogStore(all_group_logs, repositories[i],
                   Msg(repositories[i], i, "Currently processing"), TRUE)
            /\ stdout' = AddLogOut(all_group_logs, stdout, repositories[i],
                   Msg(repositories[i], i, "Currently processing"), TRUE)
            /\ pc' = "seq_call"
            /\ UNCHANGED abortAt
    /\ UNCHANGED << opVars, lockVars, liveVars, mainVars, apiVars, stopWindow, repositories, max_workers, stop_event, repo_statuses,
                    initial_total_repos_count, i, cur, it, wpc, result,
                    completed_repos_count, listener, opStart, ret, nlogs,
                    flushed >>

\* Line 194: the operation is entered.
SeqCall ==
    /\ pc = "seq_call"
    /\ opStart' = [opStart EXCEPT ![i] = FlagNow]
    /\ pc' = "seq_op"
    /\ UNCHANGED << opVars, lockVars, liveVars, mainVars, apiVars, stopWindow, repositories, max_workers, stop_event, repo_statuses,
                    initial_total_repos_count, all_group_logs, stdout, i, cur,
                    it, wpc, result, completed_repos_count, listener, ret,
                    nlogs, flushed, abortAt >>

\* Variant of SeqOpEnd: the except clause of the sequential branch records
\* the repository as successful.
SeqOpEndRaiseCompletes(outcome) ==
    /\ pc = "seq_op"
    /\ ret' = [ret EXCEPT ![i] = outcome]
    /\ IF outcome # "raise"
       THEN /\ repo_statuses' = set_repository_status(repo_statuses, repositories[i],
                                     outcome = "true")
            /\ stdout' = SetStatusOut(repo_statuses, stdout, repositories[i])
            /\ UNCHANGED all_group_logs
       ELSE /\ all_group_logs' = AddLogStore(all_group_logs, repositories[i],
                   Msg(repositories[i], i, "Error processing repository"), TRUE)
            /\ repo_statuses' = set_repository_status(repo_statuses, repositories[i], TRUE)
            /\ stdout' = SetStatusOut(repo_statuses,
                            AddLogOut(all_group_logs, stdout, repositories[i],
                                Msg(repositories[i], i, "Error processing repository"), TRUE),
                            repositories[i])
    /\ cur' = i
    /\ it' = 0
    /\ pc' = "seq_flush"
    /\ UNCHANGED << opVars, lockVars, liveVars, mainVars, apiVars, stopWindow, repositories, max_workers, stop_event,
                    initial_total_repos_count, i, wpc, result,
                    completed_repos_count, listener, opStart, nlogs, flushed,
                    abortAt >>

\* Variant of SeqOpEnd: no except clause, an exception of the operation leaves
\* process_repositories.
SeqOpEndPropagates(outcome) ==
    /\ pc = "seq_op"
    /\ ret' = [ret EXCEPT ![i] = outcome]
    /\ IF outcome # "raise"
       THEN /\ repo_statuses' = set_repository_status(repo_statuses, repositories[i],
                                     outcome = "true")
            /\ stdout' = SetStatusOut(repo_statuses, stdout, repositories[i])
            /\ cur' = i
            /\ it' = 0
            /\ pc' = "seq_flush"
       ELSE /\ pc' = "done"
            /\ UNCHANGED << repo_statuses, stdout, cur, it >>
    /\ UNCHANGED << opVars, lockVars, liveVars, mainVars, apiVars, stopWindow, repositories, max_workers, stop_event,
                    initial_total_repos_count, all_group_logs, i, wpc, result,
                    completed_repos_count, listener, opStart, nlogs, flushed,
                    abortAt >>

\* Lines 194-208: the operation ends; its result is recorded (an exception is
\* logged and recorded as a failure) and the group's log list is fetched.
SeqOpEnd(outcome) ==
    /\ pc = "seq_op"
    /\ ret' = [ret EXCEPT ![i] = outcome]
    /\ IF outcome # "raise"
       THEN /\ repo_statuses' = set_repository_status(repo_statuses, repositories[i],
                                     outcome = "true")
            /\ stdout' = SetStatusOut(repo_statuses, stdout, repositories[i])
            /\ UNCHANGED all_group_logs
       ELSE /\ all_group_logs' = AddLogStore(all_group_logs, repositories[i],
                   Msg(repositories[i], i, "Error processing repository"), TRUE)
            /\ repo_statuses' = set_repository_status(repo_statuses, repositories[i], FALSE)
            /\ stdout' = SetStatusOut(repo_statuses,
                            AddLogOut(all_group_logs, stdout, repositories[i],
                                Msg(repositories[i], i, "Error processing repository"), TRUE),
                            repositories[i])
    /\ cur' = i
    /\ it' = 0
    /\ pc' = "seq_flush"
    /\ UNCHANGED << opVars, lockVars, liveVars, mainVars, apiVars, stopWindow, repositories, max_workers, stop_event,
                    initial_total_repos_count, i, wpc, result,
                    completed_repos_count, listener, opStart, nlogs, flushed,
                    abortAt >>

\* Lines 208-209 / 252-253: one step of `for msg in get_group_log_entries(repo)`.
\* The iterator walks the list object the collector holds.
FlushNext ==
    /\ pc \in {"seq_flush", "pool_flush"}
    /\ LET entries == get_group_log_entries(all_group_logs, repositories[cur])
       IN IF it < Len(entries)
          THEN /\ stdout' = AddLogOut(all_group_logs, stdout, None, entries[it + 1], TRUE)
               /\ it' = it + 1
               /\ UNCHANGED pc
          ELSE /\ pc' = IF pc = "seq_flush" THEN "seq_clear" ELSE "pool_clear"
               /\ UNCHANGED << stdout, it >>
    /\ UNCHANGED << opVars, lockVars, liveVars, mainVars, apiVars, stopWindow, repositories, max_workers, stop_event, repo_statuses,
                    initial_total_repos_count, all_group_logs, i, cur, wpc,
                    result, completed_repos_count, listener, opStart, ret,
                    nlogs, flushed, abortAt >>

\* Variant of SeqClear: the group is left as it is.
SeqClearKeepsGroup ==
    /\ pc = "seq_clear"
    /\ i' = i + 1
    /\ pc' = IF i < Len(repositories) THEN "seq_check" ELSE "finish"
    /\ UNCHANGED << opVars, lockVars, liveVars, mainVars, apiVars, stopWindow, repositories, max_workers, stop_event, repo_statuses,
                    initial_total_repos_count, all_group_logs, stdout, cur, it,
                    wpc, result, completed_repos_count, listener, opStart, ret,
                    nlogs, flushed, abortAt >>

\* Lines 210-214: the group is cleared; then the pause before the next
\* repository (none after the last one or with the flag set).
SeqClear ==
    /\ pc = "seq_clear"
    /\ all_group_logs' = ClearLogStore(all_group_logs, repositories[i])
    /\ stdout' = ClearLogOut(all_group_logs, stdout, repositories[i])
    /\ flushed' = [flushed EXCEPT ![i] = @ + 1]
    /\ i' = i + 1
    /\ pc' = IF i < Len(repositories) THEN "seq_check" ELSE "finish"
    /\ UNCHANGED << opVars, lockVars, liveVars, mainVars, apiVars, stopWindow, repositories, max_workers, stop_event, repo_statuses,
                    initial_total_repos_count, cur, it, wpc, result,
                    completed_repos_count, listener, opStart, ret, nlogs,
                    abortAt >>

\* Lines 267-271: process_repositories returns.
Finish ==
    /\ pc = "finish"
    /\ pc' = "done"
    /\ UNCHANGED << opVars, lockVars, liveVars, mainVars, apiVars, stopWindow, repositories, max_workers, stop_event, repo_statuses,
                    initial_total_repos_count, all_group_logs, stdout, i, cur,
                    it, wpc, result, completed_repos_count, listener, opStart,
                    ret, nlogs, flushed, abortAt >>

\* --------------------------------------------------------- pooled mode
\* Tasks a worker thread is busy with.
Active == {p \in Positions : wpc[p] \in {"call", "op"}}

Submitted == {p \in Positions : wpc[p] # "none"}

\* Lines 224-237: the flag is read; set: no further task is submitted;
\* clear: the task of repository i is handed to the executor.
PoolSubmit ==
    /\ pc = "pool_submit"
    /\ IF stop_event
       THEN /\ pc' = "pool_wait"
            /\ abortAt' = i
            /\ UNCHANGED << wpc, i >>
       ELSE /\ wpc' = [wpc EXCEPT ![i] = "queued"]
            /\ i' = i + 1
            /\ pc' = IF i < Len(repositories) THEN "pool_submit" ELSE "pool_wait"
            /\ UNCHANGED abortAt
    /\ UNCHANGED << opVars, lockVars, liveVars, mainVars, apiVars, stopWindow, repositories, max_workers, stop_event, repo_statuses,
                    initial_total_repos_count, all_group_logs, stdout, cur, it,
                    result, completed_repos_count, listener, opStart, ret,
                    nlogs, flushed >>

\* Variant of WorkerBegin: a queued task starts whether or not a worker
\* thread is free.
WorkerBeginUnbounded(p) ==
    /\ wpc[p] = "queued"
    /\ \A q \in Positions : wpc[q] = "queued" => p <= q
    /\ IF stop_event
       THEN /\ wpc' = [wpc EXCEPT ![p] = "finished"]
            /\ result' = [result EXCEPT ![p] = FALSE]
            /\ UNCHANGED repo_statuses
       ELSE /\ wpc' = [wpc EXCEPT ![p] = "call"]
            /\ repo_statuses' = set_repository_in_progress(repo_statuses, repositories[p])
            /\ UNCHANGED result
    /\ UNCHANGED << opVars, lockVars, liveVars, mainVars, apiVars, stopWindow, repositories, max_workers, stop_event,
                    initial_total_repos_count, all_group_logs, stdout, pc, i,
                    cur, it, completed_repos_count, listener, opStart, ret,
                    nlogs, flushed, abortAt >>

\* Variant of WorkerBegin: the executor has one worker thread whatever its
\* width.
WorkerBeginSingleThread(p) ==
    /\ wpc[p] = "queued"
    /\ \A q \in Positions : wpc[q] = "queued" => p <= q
    /\ Active = {}
    /\ IF stop_event
       THEN /\ wpc' = [wpc EXCEPT ![p] = "finished"]
            /\ result' = [result EXCEPT ![p] = FALSE]
            /\ UNCHANGED repo_statuses
       ELSE /\ wpc' = [wpc EXCEPT ![p] = "call"]
            /\ repo_statuses' = set_repository_in_progress(repo_statuses, repositories[p])
            /\ UNCHANGED result
    /\ UNCHANGED << opVars, lockVars, liveVars, mainVars, apiVars, stopWindow, repositories, max_workers, stop_event,
                    initial_total_repos_count, all_group_logs, stdout, pc, i,
                    cur, it, completed_repos_count, listener, opStart, ret,
                    nlogs, flushed, abortAt >>

\* Variant of WorkerBegin: the flag is not consulted.
WorkerBeginNoCheck(p) ==
    /\ wpc[p] = "queued"
    /\ \A q \in Positions : wpc[q] = "queued" => p <= q
    /\ Cardinality(Active) < max_workers
    /\ wpc' = [wpc EXCEPT ![p] = "call"]
    /\ repo_statuses' = set_repository_in_progress(repo_statuses, repositories[p])
    /\ UNCHANGED << opVars, lockVars, liveVars, mainVars, apiVars, stopWindow, repositories, max_workers, stop_event,
                    initial_total_repos_count, all_group_logs, stdout, pc, i,
                    cur, it, result, completed_repos_count, listener, opStart,
                    ret, nlogs, flushed, abortAt >>

\* Variant of WorkerBegin: the repository is marked in progress before the
\* flag is consulted.
WorkerBeginMarksFirst(p) ==
    /\ wpc[p] = "queued"
    /\ \A q \in Positions : wpc[q] = "queued" => p <= q
    /\ Cardinality(Active) < max_workers
    /\ repo_statuses' = set_repository_in_progress(repo_statuses, repositories[p])
    /\ IF stop_event
       THEN /\ wpc' = [wpc EXCEPT ![p] = "finished"]
            /\ result' = [result EXCEPT ![p] = FALSE]
       ELSE /\ wpc' = [wpc EXCEPT ![p] = "call"]
            /\ UNCHANGED result
    /\ UNCHANGED << opVars, lockVars, liveVars, mainVars, apiVars, stopWindow, repositories, max_workers, stop_event,
                    initial_total_repos_count, all_group_logs, stdout, pc, i,
                    cur, it, completed_repos_count, listener, opStart, ret,
                    nlogs, flushed, abortAt >>

\* A free worker thread takes the oldest queued task and runs lines 117-123 of
\* _process_single_repository_worker: with the flag set the task returns False
\* at once (its finally block prints nothing); otherwise the repository is
\* marked in progress.
WorkerBegin(p) ==
    /\ wpc[p] = "queued"
    /\ \A q \in Positions : wpc[q] = "queued" => p <= q
    /\ Cardinality(Active) < max_workers
    /\ IF stop_event
       THEN /\ wpc' = [wpc EXCEPT ![p] = "finished"]
            /\ result' = [result EXCEPT ![p] = FALSE]
            /\ UNCHANGED repo_statuses
       ELSE /\ wpc' = [wpc EXCEPT ![p] = "call"]
            /\ repo_statuses' = set_repository_in_progress(repo_statuses, repositories[p])
            /\ UNCHANGED result
    /\ UNCHANGED << opVars, lockVars, liveVars, mainVars, apiVars, stopWindow, repositories, max_workers, stop_event,
                    initial_total_repos_count, all_group_logs, stdout, pc, i,
                    cur, it, completed_repos_count, listener, opStart, ret,
                    nlogs, flushed, abortAt >>

\* Line 128: the operation is entered.
WorkerCall(p) ==
    /\ wpc[p] = "call"
    /\ opStart' = [opStart EXCEPT ![p] = FlagNow]
    /\ wpc' = [wpc EXCEPT ![p] = "op"]
    /\ UNCHANGED << opVars, lockVars, liveVars, mainVars, apiVars, stopWindow, repositories, max_workers, stop_event, repo_statuses,
                    initial_total_repos_count, all_group_logs, stdout, pc, i,
                    cur, it, result, completed_repos_count, listener, ret,
                    nlogs, flushed, abortAt >>

\* Lines 128-155: the operation ends. A returned value is logged, counted and
\* returned; an exception is logged and turned into False. Then the future
\* is done.
WorkerOpEnd(p, outcome) ==
    /\ wpc[p] = "op"
    /\ ret' = [ret EXCEPT ![p] = outcome]
    /\ LET m == Msg(repositories[p], p,
                    IF outcome = "raise" THEN "Error processing repository"
                                         ELSE "Repository processing ended")
       IN /\ all_group_logs' = AddLogStore(all_group_logs, repositories[p], m, TRUE)
          /\ stdout' = AddLogOut(all_group_logs, stdout, repositories[p], m, TRUE)
    /\ completed_repos_count' =
          IF outcome = "raise" THEN completed_repos_count
                               ELSE completed_repos_count + 1
    /\ result' = [result EXCEPT ![p] = (outcome = "true")]
    /\ wpc' = [wpc EXCEPT ![p] = "finished"]
    /\ UNCHANGED << opVars, lockVars, liveVars, mainVars, apiVars, stopWindow, repositories, max_workers, stop_event, repo_statuses,
                    initial_total_repos_count, pc, i, cur, it, listener,
                    opStart, nlogs, flushed, abortAt >>

\* Futures as_completed has yielded.
Handled == {p \in Positions : flushed[p] > 0} \cup
           (IF pc \in {"pool_flush", "pool_clear"} THEN {cur} ELSE {})

\* Variant of PoolHandle: the result of the future is not recorded in the
\* status map.
PoolHandleKeepsStatus(p) ==
    /\ pc = "pool_wait"
    /\ wpc[p] = "finished"
    /\ p \notin Handled
    /\ cur' = p
    /\ it' = 0
    /\ pc' = "pool_flush"
    /\ UNCHANGED << opVars, lockVars, liveVars, mainVars, apiVars, stopWindow, repositories, max_workers, stop_event,
                    initial_total_repos_count, all_group_logs, i, wpc, result,
                    completed_repos_count, listener, opStart, ret, nlogs,
                    flushed, abortAt, repo_statuses, stdout >>

\* Lines 240-252: as_completed yields a finished future; its result is
\* recorded and the group's log list is fetched.
PoolHandle(p) ==
    /\ pc = "pool_wait"
    /\ wpc[p] = "finished"
    /\ p \notin Handled
    /\ repo_statuses' = set_repository_status(repo_statuses, repositories[p], result[p])
    /\ stdout' = SetStatusOut(repo_statuses, stdout, repositories[p])
    /\ cur' = p
    /\ it' = 0
    /\ pc' = "pool_flush"
    /\ UNCHANGED << opVars, lockVars, liveVars, mainVars, apiVars, stopWindow, repositories, max_workers, stop_event,
                    initial_total_repos_count, all_group_logs, i, wpc, result,
                    completed_repos_count, listener, opStart, ret, nlogs,
                    flushed, abortAt >>

ProgressLine(summary) ==
    [grp |-> None, src |-> 0, txt |-> "[Progress]", summary |-> summary]

\* Variant of PoolClear: the group is printed and keeps its messages.
PoolClearKeepsGroup ==
    /\ pc = "pool_clear"
    /\ stdout' =
          IF stop_event
          THEN stdout
          ELSE Append(stdout,
                 ProgressLine(get_current_progress_summary(repo_statuses,
                                  initial_total_repos_count)))
    /\ flushed' = [flushed EXCEPT ![cur] = @ + 1]
    /\ pc' = "pool_wait"
    /\ UNCHANGED << opVars, lockVars, liveVars, mainVars, apiVars, stopWindow, repositories, max_workers, stop_event, repo_statuses,
                    initial_total_repos_count, i, cur, it, wpc, result,
                    completed_repos_count, listener, opStart, ret, nlogs,
                    abortAt, all_group_logs >>

\* Variant of PoolClear: the progress summary is printed whether or not the
\* flag is set.
PoolClearAlwaysReports ==
    /\ pc = "pool_clear"
    /\ all_group_logs' = ClearLogStore(all_group_logs, repositories[cur])
    /\ stdout' =
          Append(ClearLogOut(all_group_logs, stdout, repositories[cur]),
                 ProgressLine(get_current_progress_summary(repo_statuses,
                                  initial_total_repos_count)))
    /\ flushed' = [flushed EXCEPT ![cur] = @ + 1]
    /\ pc' = "pool_wait"
    /\ UNCHANGED << opVars, lockVars, liveVars, mainVars, apiVars, stopWindow, repositories, max_workers, stop_event, repo_statuses,
                    initial_total_repos_count, i, cur, it, wpc, result,
                    completed_repos_count, listener, opStart, ret, nlogs,
                    abortAt >>

\* Lines 254-265: the group is cleared; unless the flag is set the progress
\* summary is printed.
PoolClear ==
    /\ pc = "pool_clear"
    /\ all_group_logs' = ClearLogStore(all_group_logs, repositories[cur])
    /\ stdout' =
          LET out == ClearLogOut(all_group_logs, stdout, repositories[cur])
          IN IF stop_event
             THEN out
             ELSE Append(out,
                    ProgressLine(get_current_progress_summary(repo_statuses,
                                     initial_total_repos_count)))
    /\ flushed' = [flushed EXCEPT ![cur] = @ + 1]
    /\ pc' = "pool_wait"
    /\ UNCHANGED << opVars, lockVars, liveVars, mainVars, apiVars, stopWindow, repositories, max_workers, stop_event, repo_statuses,
                    initial_total_repos_count, i, cur, it, wpc, result,
                    completed_repos_count, listener, opStart, ret, nlogs,
                    abortAt >>

\* Variant of PoolExit: the scheduler leaves without waiting for the futures.
PoolExitNoWait ==
    /\ pc = "pool_wait"
    /\ pc' = "finish"
    /\ UNCHANGED << opVars, lockVars, liveVars, mainVars, apiVars, stopWindow, repositories, max_workers, stop_event, repo_statuses,
                    initial_total_repos_count, all_group_logs, stdout, i, cur,
                    it, wpc, result, completed_repos_count, listener, opStart,
                    ret, nlogs, flushed, abortAt >>

\* Variant of PoolExit: the scheduler waits for a completion of every
\* repository of the list, submitted or not.
PoolExitAwaitsAll ==
    /\ pc = "pool_wait"
    /\ Positions \subseteq Handled
    /\ pc' = "finish"
    /\ UNCHANGED << opVars, lockVars, liveVars, mainVars, apiVars, stopWindow, repositories, max_workers, stop_event, repo_statuses,
                    initial_total_repos_count, all_group_logs, stdout, i, cur,
                    it, wpc, result, completed_repos_count, listener, opStart,
                    ret, nlogs, flushed, abortAt >>

\* Line 222: as_completed is exhausted and the executor is shut down.
PoolExit ==
    /\ pc = "pool_wait"
    /\ Submitted \subseteq Handled
    /\ pc' = "finish"
    /\ UNCHANGED << opVars, lockVars, liveVars, mainVars, apiVars, stopWindow, repositories, max_workers, stop_event, repo_statuses,
                    initial_total_repos_count, all_group_logs, stdout, i, cur,
                    it, wpc, result, completed_repos_count, listener, opStart,
                    ret, nlogs, flushed, abortAt >>

\* ------------------------------------------------------- specification
Next ==
    \/ \E kind \in {"q", "eof"} : ListenerAbort(kind)
    \/ Begin
    \/ \E p \in Positions : OpLog(p)
    \/ SeqCheck
    \/ SeqCall
    \/ \E outcome \in Outcomes : SeqOpEnd(outcome)
    \/ FlushNext
    \/ SeqClear
    \/ Finish
    \/ PoolSubmit
    \/ \E p \in Positions : WorkerBegin(p)
    \/ \E p \in Positions : WorkerCall(p)
    \/ \E p \in Positions, outcome \in Outcomes : WorkerOpEnd(p, outcome)
    \/ \E p \in Positions : PoolHandle(p)
    \/ PoolClear
    \/ PoolExit

Spec == Init /\ [][Next]_vars


\* ------------------------------------------- direct calls of the trackers
\* The functions of the status tracker and of the log collector are module
\* functions any thread may call. ApiSpec lets MaxThreads threads call them
\* with every argument, MaxCalls calls in all. Each body runs under its
\* module's lock; set_repository_status writes two fields under _status_lock
\* and is taken in two steps, the other bodies make one change and are one
\* step each.
schedVars == << repositories, max_workers, stop_event, pc, i, cur, it, wpc,
                result, completed_repos_count, listener, opStart, ret, nlogs,
                flushed, abortAt, stopWindow >>

\* Arguments of the calls: repository lists, names (a name is unknown to a
\* tracker that was initialized without it) and the global group.
ApiLists == { s \in RepoLists : Len(s) <= MainMaxRepos } \cup { << >> }

ApiNames == { RepoNames[k] : k \in 1..MainMaxRepos }

ApiInit ==
    /\ repositories = << >>
    /\ max_workers = 1
    /\ sleep_after_repo = 0
    /\ main_exit = "none"
    /\ stop_event = FALSE
    /\ repo_statuses = << >>
    /\ initial_total_repos_count = 0
    /\ all_group_logs = << >>
    /\ stdout = << >>
    /\ pc = "idle"
    /\ i = 1
    /\ cur = 0
    /\ it = 0
    /\ wpc = << >>
    /\ result = << >>
    /\ completed_repos_count = 0
    /\ listener = "unstarted"
    /\ opStart = << >>
    /\ ret = << >>
    /\ nlogs = << >>
    /\ flushed = << >>
    /\ abortAt = 0
    /\ stopWindow = {}
    /\ ApiIdle
    /\ OpIdle
    /\ LiveIdle

\* The call thread t makes now, with the state it finds.
Call(op, name, arg, res) ==
    [op |-> op, name |-> name, arg |-> arg, statuses |-> repo_statuses,
     total |-> initial_total_repos_count, logs |-> all_group_logs,
     out |-> stdout, result |-> res]

MayCall(t) == tpc[t] = "idle" /\ ncalls < MaxCalls

\* Variant of StatusLockFree: the lock is not honoured.
StatusLockIgnored == TRUE

\* `with _status_lock:` is entered only while no thread holds the lock.
StatusLockFree == status_lock = 0

\* Variant of WriteSuccess: an entry is made for a name the map does not hold.
WriteSuccessCreates(statuses, repo_name, success) ==
    [n \in DOMAIN statuses \cup {repo_name} |->
        IF n = repo_name
        THEN [success |-> success,
              status |-> IF n \in DOMAIN statuses THEN statuses[n].status
                                                  ELSE "pending"]
        ELSE statuses[n]]

\* set_repository_status, line 292: the success flag of a known repository.
WriteSuccess(statuses, repo_name, success) ==
    IF repo_name \in DOMAIN statuses
    THEN [statuses EXCEPT ![repo_name].success = success]
    ELSE statuses

\* Variant of WriteStatus: a terminal lifecycle is not overwritten.
WriteStatusOnce(statuses, repo_name, success) ==
    IF repo_name \in DOMAIN statuses
       /\ statuses[repo_name].status \notin {"completed", "failed"}
    THEN [statuses EXCEPT ![repo_name].status =
            IF success THEN "completed" ELSE "failed"]
    ELSE statuses

\* set_repository_status, lines 293-296: the lifecycle of a known repository.
WriteStatus(statuses, repo_name, success) ==
    IF repo_name \in DOMAIN statuses
    THEN [statuses EXCEPT ![repo_name].status =
            IF success THEN "completed" ELSE "failed"]
    ELSE statuses

\* initialize_repository_statuses(repos), lines 279-284.
CallInitializeStatuses(t, repos) ==
    /\ MayCall(t)
    /\ StatusLockFree
    /\ repo_statuses' = initialize_repository_statuses(repos)
    /\ initial_total_repos_count' = Len(repos)
    /\ seq_statuses' = initialize_repository_statuses(repos)
    /\ seq_total' = Len(repos)
    /\ last' = Call("initialize_repository_statuses", None, repos, FALSE)
    /\ ncalls' = ncalls + 1
    /\ UNCHANGED << schedVars, opVars, lockVars, liveVars, mainVars, all_group_logs, stdout, tpc, tcall,
                    status_lock, appended >>

\* set_repository_status(repo_name, success), lines 290-292: the lock is
\* taken and the success flag is written.
CallSetStatusBegin(t, repo_name, success) ==
    /\ MayCall(t)
    /\ StatusLockFree
    /\ status_lock' = t
    /\ tpc' = [tpc EXCEPT ![t] = "status_locked"]
    /\ tcall' = [tcall EXCEPT ![t] = Call("set_repository_status", repo_name, success, FALSE)]
    /\ repo_statuses' = WriteSuccess(repo_statuses, repo_name, success)
    /\ ncalls' = ncalls + 1
    /\ UNCHANGED << schedVars, opVars, lockVars, liveVars, mainVars, initial_total_repos_count,
                    all_group_logs, stdout, last, seq_statuses, seq_total,
                    appended >>

\* set_repository_status, lines 293-299: the lifecycle is written (or the
\* warning for an unknown name) and the lock is released.
CallSetStatusEnd(t) ==
    /\ tpc[t] = "status_locked"
    /\ repo_statuses' = WriteStatus(repo_statuses, tcall[t].name, tcall[t].arg)
    /\ stdout' = SetStatusOut(repo_statuses, stdout, tcall[t].name)
    /\ status_lock' = 0
    /\ tpc' = [tpc EXCEPT ![t] = "idle"]
    /\ last' = tcall[t]
    /\ tcall' = [tcall EXCEPT ![t] = NoCall]
    /\ seq_statuses' = set_repository_status(seq_statuses, tcall[t].name, tcall[t].arg)
    /\ UNCHANGED << schedVars, opVars, lockVars, liveVars, mainVars, initial_total_repos_count,
                    all_group_logs, seq_total, appended, ncalls >>

\* set_repository_in_progress(repo_name), lines 305-307.
CallSetInProgress(t, repo_name) ==
    /\ MayCall(t)
    /\ StatusLockFree
    /\ repo_statuses' = set_repository_in_progress(repo_statuses, repo_name)
    /\ seq_statuses' = set_repository_in_progress(seq_statuses, repo_name)
    /\ last' = Call("set_repository_in_progress", repo_name, FALSE, FALSE)
    /\ ncalls' = ncalls + 1
    /\ UNCHANGED << schedVars, opVars, lockVars, liveVars, mainVars, initial_total_repos_count,
                    all_group_logs, stdout, tpc, tcall, status_lock, seq_total,
                    appended >>

\* get_repository_overall_status(repo_name), lines 315-316.
CallGetOverallStatus(t, repo_name) ==
    /\ MayCall(t)
    /\ StatusLockFree
    /\ last' = Call("get_repository_overall_status", repo_name, FALSE,
                    get_repository_overall_status(repo_statuses, repo_name))
    /\ ncalls' = ncalls + 1
    /\ UNCHANGED << schedVars, opVars, lockVars, liveVars, mainVars, repo_statuses,
                    initial_total_repos_count, all_group_logs, stdout, tpc,
                    tcall, status_lock, seq_statuses, seq_total, appended >>

\* get_current_progress_summary(), lines 323-334.
CallGetProgressSummary(t) ==
    /\ MayCall(t)
    /\ StatusLockFree
    /\ last' = Call("get_current_progress_summary", None, FALSE,
                    get_current_progress_summary(repo_statuses,
                                                 initial_total_repos_count))
    /\ ncalls' = ncalls + 1
    /\ UNCHANGED << schedVars, opVars, lockVars, liveVars, mainVars, repo_statuses,
                    initial_total_repos_count, all_group_logs, stdout, tpc,
                    tcall, status_lock, seq_statuses, seq_total, appended >>

\* initialize_log_collector(group_names), lines 19-23.
CallInitializeLogs(t, group_names) ==
    /\ MayCall(t)
    /\ all_group_logs' = initialize_log_collector(group_names)
    /\ appended' = [n \in {group_names[p] : p \in 1..Len(group_names)} |-> << >>]
    /\ last' = Call("initialize_log_collector", None, group_names, FALSE)
    /\ ncalls' = ncalls + 1
    /\ UNCHANGED << schedVars, opVars, lockVars, liveVars, mainVars, repo_statuses,
                    initial_total_repos_count, stdout, tpc, tcall, status_lock,
                    seq_statuses, seq_total >>

\* add_log_entry(group_name, message, store), lines 41-58. The message names
\* the group it is addressed to, the calling thread and the number of the call.
CallAddLogEntry(t, group_name, store) ==
    /\ MayCall(t)
    /\ LET message == Msg(group_name, t, ToString(ncalls + 1))
       IN /\ all_group_logs' = AddLogStore(all_group_logs, group_name, message, store)
          /\ stdout' = AddLogOut(all_group_logs, stdout, group_name, message, store)
          /\ appended' =
                IF store /\ group_name \in DOMAIN appended
                THEN [appended EXCEPT ![group_name] = Append(@, message)]
                ELSE appended
          /\ last' = Call("add_log_entry", group_name, store, message)
    /\ ncalls' = ncalls + 1
    /\ UNCHANGED << schedVars, opVars, lockVars, liveVars, mainVars, repo_statuses,
                    initial_total_repos_count, tpc, tcall, status_lock,
                    seq_statuses, seq_total >>

\* get_group_log_entries(group_name), lines 70-71.
CallGetGroupLogEntries(t, group_name) ==
    /\ MayCall(t)
    /\ last' = Call("get_group_log_entries", group_name, FALSE,
                    get_group_log_entries(all_group_logs, group_name))
    /\ ncalls' = ncalls + 1
    /\ UNCHANGED << schedVars, opVars, lockVars, liveVars, mainVars, repo_statuses,
                    initial_total_repos_count, all_group_logs, stdout, tpc,
                    tcall, status_lock, seq_statuses, seq_total, appended >>

\* clear_group_log_entries(group_name), lines 81-86.
CallClearGroupLogEntries(t, group_name) ==
    /\ MayCall(t)
    /\ all_group_logs' = ClearLogStore(all_group_logs, group_name)
    /\ stdout' = ClearLogOut(all_group_logs, stdout, group_name)
    /\ appended' =
          IF group_name \in DOMAIN appended
          THEN [appended EXCEPT ![group_name] = << >>]
          ELSE appended
    /\ last' = Call("clear_group_log_entries", group_name, FALSE, FALSE)
    /\ ncalls' = ncalls + 1
    /\ UNCHANGED << schedVars, opVars, lockVars, liveVars, mainVars, repo_statuses,
                    initial_total_repos_count, tpc, tcall, status_lock,
                    seq_statuses, seq_total >>

ApiNext ==
    \/ \E t \in Threads, repos \in ApiLists : CallInitializeStatuses(t, repos)
    \/ \E t \in Threads, n \in ApiNames, b \in BOOLEAN : CallSetStatusBegin(t, n, b)
    \/ \E t \in Threads : CallSetStatusEnd(t)
    \/ \E t \in Threads, n \in ApiNames : CallSetInProgress(t, n)
    \/ \E t \in Threads, n \in ApiNames : CallGetOverallStatus(t, n)
    \/ \E t \in Threads : CallGetProgressSummary(t)
    \/ \E t \in Threads, repos \in ApiLists : CallInitializeLogs(t, repos)
    \/ \E t \in Threads, n \in ApiNames \cup {None}, store \in BOOLEAN :
          CallAddLogEntry(t, n, store)
    \/ \E t \in Threads, n \in ApiNames : CallGetGroupLogEntries(t, n)
    \/ \E t \in Threads, n \in ApiNames : CallClearGroupLogEntries(t, n)

ApiSpec == ApiInit /\ [][ApiNext]_vars

\* ------------------------------------------ main() before the scheduling
\* MainSpec starts where main() has parsed its arguments: --workers and
\* --sleep are any integers, and the list of target repositories may be empty.
MainLists == { s \in RepoLists : Len(s) <= MainMaxRepos } \cup { << >> }

MainInit ==
    /\ repositories \in MainLists
    /\ max_workers \in (-1)..MaxWorkers
    /\ sleep_after_repo \in (-1)..MaxSleep
    /\ main_exit = "none"
    /\ ApiIdle
    /\ OpIdle
    /\ LiveIdle
    /\ stop_event = FALSE
    /\ repo_statuses = << >>
    /\ initial_total_repos_count = 0
    /\ all_group_logs = << >>
    /\ stdout = << >>
    /\ pc = "main"
    /\ i = 1
    /\ cur = 0
    /\ it = 0
    /\ wpc = [p \in Positions |-> "none"]
    /\ result = [p \in Positions |-> FALSE]
    /\ completed_repos_count = 0
    /\ listener = "unstarted"
    /\ opStart = [p \in Positions |-> "none"]
    /\ ret = [p \in Positions |-> "none"]
    /\ nlogs = [p \in Positions |-> 0]
    /\ flushed = [p \in Positions |-> 0]
    /\ abortAt = 0
    /\ stopWindow = {}

\* Variant of post_init: only the pause is validated.
post_init_pause_only(workers, sleep) ==
    IF sleep < 0 THEN "ValueError" ELSE "ok"

\* GitHubOperationConfig.__post_init__, configs.py lines 43-46.
post_init(workers, sleep) ==
    IF workers < 1 THEN "ValueError"
    ELSE IF sleep < 0 THEN "ValueError"
    ELSE "ok"

\* main.py lines 22-27: the configuration object is constructed; a ValueError
\* of __post_init__ is not caught and ends main().
Construct ==
    /\ pc = "main"
    /\ IF post_init(max_workers, sleep_after_repo) = "ok"
       THEN /\ pc' = "main_repos"
            /\ UNCHANGED main_exit
       ELSE /\ pc' = "exited"
            /\ main_exit' = "ValueError"
    /\ UNCHANGED << opVars, lockVars, liveVars, apiVars, repositories, max_workers, stop_event,
                    repo_statuses, initial_total_repos_count, all_group_logs,
                    stdout, i, cur, it, wpc, result, completed_repos_count,
                    listener, opStart, ret, nlogs, flushed, abortAt,
                    stopWindow, sleep_after_repo >>

\* Variant of DetermineRepositories: no test for an empty list.
DetermineRepositoriesUnchecked ==
    /\ pc = "main_repos"
    /\ pc' = "start"
    /\ listener' = "listening"
    /\ UNCHANGED << opVars, lockVars, liveVars, mainVars, apiVars, repositories, max_workers, stop_event,
                    repo_statuses, initial_total_repos_count, all_group_logs,
                    stdout, i, cur, it, wpc, result, completed_repos_count,
                    opStart, ret, nlogs, flushed, abortAt, stopWindow >>

\* main.py lines 56-93: with no repository to process main() prints a notice
\* and calls sys.exit(0); otherwise the listener thread is started and
\* process_repositories is called.
DetermineRepositories ==
    /\ pc = "main_repos"
    /\ IF Len(repositories) = 0
       THEN /\ pc' = "exited"
            /\ main_exit' = "sys.exit(0)"
            /\ UNCHANGED listener
       ELSE /\ pc' = "start"
            /\ listener' = "listening"
            /\ UNCHANGED main_exit
    /\ UNCHANGED << opVars, lockVars, liveVars, apiVars, repositories, max_workers, stop_event,
                    repo_statuses, initial_total_repos_count, all_group_logs,
                    stdout, i, cur, it, wpc, result, completed_repos_count,
                    opStart, ret, nlogs, flushed, abortAt, stopWindow,
                    sleep_after_repo >>

MainNext ==
    \/ Construct
    \/ DetermineRepositories
    \/ Next

MainSpec == MainInit /\ [][MainNext]_vars

\* ------------------------------------------- process_single_repository
\* One call of process_single_repository (core/github_operations.py) on one
\* repository. Every gh command is one step: the command runs and ends in one
\* of the ways execute_subprocess_command and run_gh_command tell apart.
\*   "ok"    exit status 0
\*   "fail"  non-zero exit status (CalledProcessError), no HTTP 404 on a delete
\*   "404"   non-zero exit status of a delete with "HTTP 404" on stderr: the
\*           item was removed by someone else after it was listed
\*   "nogh"  the gh executable is not found (FileNotFoundError)

\* Names of the secrets and of the variables that are explored.
ItemNames == [secret |-> {"A", "B"}, variable |-> {"V"}]

\* Values of an item: the set requests carry NewValue; an item the repository
\* starts with has OldValue, a secret possibly NewValue already.
OldValue == "v1"
NewValue == "v2"

\* The delete lists: as long as there are names at most, a name possibly
\* listed twice.
DeleteLists(k) ==
    UNION { [1..n -> ItemNames[k]] : n \in 0..Cardinality(ItemNames[k]) }

\* set(delete_list), github_operations.py lines 280 and 295.
ToSet(s) == { s[x] : x \in 1..Len(s) }

\* The names of one type that exist in the repository.
Present(k) == { n \in ItemNames[k] : repo_content[k][n] # "absent" }

\* The keys of secrets_to_set_dict / variables_to_set_dict.
Requested(k) == { n \in ItemNames[k] : to_set[k][n] # "none" }

RepoInit ==
    /\ repo_content \in
          { [secret |-> a, variable |-> b] :
                a \in [ItemNames["secret"] -> {"absent", OldValue, NewValue}],
                b \in [ItemNames["variable"] -> {"absent", OldValue}] }
    /\ delete_list \in
          { [secret |-> a, variable |-> b] :
                a \in DeleteLists("secret"), b \in DeleteLists("variable") }
    /\ to_set \in
          { [secret |-> a, variable |-> b] :
                a \in [ItemNames["secret"] -> {"none", NewValue}],
                b \in [ItemNames["variable"] -> {"none", NewValue}] }
    /\ force \in BOOLEAN
    /\ rpc = "fetch1"
    /\ item_type = "secret"
    /\ existing = [k \in Kinds |-> {}]
    /\ handled = {}
    /\ overall_success = TRUE
    /\ gh_calls = << >>
    /\ op_log = {}
    /\ op_result = "none"
    /\ run = 1
    /\ first_content = [k \in Kinds |-> [n \in ItemNames[k] |-> "absent"]]
    /\ first_result = "none"
    /\ LiveIdle
    /\ ApiIdle
    /\ repositories = << >>
    /\ max_workers = 1
    /\ stop_event = FALSE
    /\ sleep_after_repo = 0
    /\ main_exit = "none"
    /\ repo_statuses = << >>
    /\ initial_total_repos_count = 0
    /\ all_group_logs = << >>
    /\ stdout = << >>
    /\ pc = "idle"
    /\ i = 1
    /\ cur = 0
    /\ it = 0
    /\ wpc = << >>
    /\ result = << >>
    /\ completed_repos_count = 0
    /\ listener = "unstarted"
    /\ opStart = << >>
    /\ ret = << >>
    /\ nlogs = << >>
    /\ flushed = << >>
    /\ abortAt = 0
    /\ stopWindow = {}

\* The gh command the step runs, with how it ended and with the names of its
\* type the repository held when it ran.
Ran(cmd, name, o) ==
    Append(gh_calls, [cmd |-> cmd, type |-> item_type, name |-> name,
                      outcome |-> o, held |-> Present(item_type)])

\* utils.py lines 160-162: FileNotFoundError ends the program with
\* sys.exit(1); SystemExit is no Exception, so no handler of
\* github_operations.py catches it.
SysExit ==
    /\ rpc' = "returned"
    /\ op_result' = "SystemExit"
    /\ op_log' = op_log \cup {"gh not found"}
    /\ UNCHANGED << repo_content, item_type, existing, handled,
                    overall_success >>

\* Variant of FetchExisting: a fetch adds the listed names to the names the
\* task already knows instead of replacing them.
FetchExistingAccumulates(o) ==
    /\ rpc \in {"fetch1", "fetch2"}
    /\ gh_calls' = Ran("list", None, o)
    /\ IF o = "nogh" THEN SysExit
       ELSE /\ existing' = [existing EXCEPT
                   ![item_type] = IF o = "ok" THEN @ \cup Present(item_type) ELSE @]
            /\ op_log' = IF o = "ok" THEN op_log
                         ELSE op_log \cup {"Fatal error occurred", "Warning: Failed to retrieve"}
            /\ handled' = {}
            /\ IF item_type = "secret"
               THEN /\ item_type' = "variable"
                    /\ UNCHANGED rpc
               ELSE /\ item_type' = "secret"
                    /\ rpc' = IF rpc = "fetch1" THEN "delete" ELSE "set"
            /\ UNCHANGED << repo_content, overall_success, op_result >>
    /\ UNCHANGED << delete_list, to_set, force >>

\* Variant of FetchExisting: the sets of the first fetch are kept, the list
\* commands of the second fetch change nothing.
FetchExistingOnce(o) ==
    /\ rpc \in {"fetch1", "fetch2"}
    /\ gh_calls' = Ran("list", None, o)
    /\ IF o = "nogh" THEN SysExit
       ELSE /\ existing' =
                  IF rpc = "fetch2" THEN existing
                  ELSE [existing EXCEPT
                          ![item_type] = IF o = "ok" THEN Present(item_type) ELSE {}]
            /\ op_log' = IF o = "ok" THEN op_log
                         ELSE op_log \cup {"Fatal error occurred", "Warning: Failed to retrieve"}
            /\ handled' = {}
            /\ IF item_type = "secret"
               THEN /\ item_type' = "variable"
                    /\ UNCHANGED rpc
               ELSE /\ item_type' = "secret"
                    /\ rpc' = IF rpc = "fetch1" THEN "delete" ELSE "set"
            /\ UNCHANGED << repo_content, overall_success, op_result >>
    /\ UNCHANGED << delete_list, to_set, force >>

\* _log_and_fetch_existing_repo_items, lines 58-78, called at lines 275 and
\* 309: one list command per item type, the secrets first. A list command
\* that fails is logged as a warning and gives the empty set (lines 52-55).
FetchExisting(o) ==
    /\ rpc \in {"fetch1", "fetch2"}
    /\ gh_calls' = Ran("list", None, o)
    /\ IF o = "nogh" THEN SysExit
       ELSE /\ existing' = [existing EXCEPT
                   ![item_type] = IF o = "ok" THEN Present(item_type) ELSE {}]
            /\ op_log' = IF o = "ok" THEN op_log
                         ELSE op_log \cup {"Fatal error occurred", "Warning: Failed to retrieve"}
            /\ handled' = {}
            /\ IF item_type = "secret"
               THEN /\ item_type' = "variable"
                    /\ UNCHANGED rpc
               ELSE /\ item_type' = "secret"
                    /\ rpc' = IF rpc = "fetch1" THEN "delete" ELSE "set"
            /\ UNCHANGED << repo_content, overall_success, op_result >>
    /\ UNCHANGED << delete_list, to_set, force >>

\* secrets_to_actually_delete / variables_to_actually_delete, lines 278-282
\* and 293-297.
ToDelete ==
    IF delete_list[item_type] = << >> THEN {}
    ELSE ToSet(delete_list[item_type]) \cap existing[item_type]

\* Variant of DeleteItem: a delete answered with HTTP 404 is a failure.
DeleteItemNotFoundFails(n, o) ==
    /\ rpc = "delete"
    /\ n \in ToDelete \ handled
    /\ gh_calls' = Ran("delete", n, o)
    /\ IF o = "nogh" THEN SysExit
       ELSE /\ handled' = handled \cup {n}
            /\ repo_content' =
                  IF o = "fail" THEN repo_content
                  ELSE [repo_content EXCEPT ![item_type][n] = "absent"]
            /\ overall_success' = (overall_success /\ o = "ok")
            /\ op_log' = op_log \cup
                  (CASE o = "ok" -> {"Successfully deleted"}
                     [] o = "404" -> {"Warning: HTTP 404", "Failed to delete"}
                     [] o = "fail" -> {"Fatal error occurred", "Failed to delete"})
            /\ UNCHANGED << rpc, item_type, existing, op_result >>
    /\ UNCHANGED << delete_list, to_set, force >>

\* Lines 284-286 and 299-301 with delete_github_secret / delete_github_variable
\* (lines 127-149) and run_gh_command (lines 107-118): one iteration of a
\* delete loop. A Python set is iterated in no particular order.
DeleteItem(n, o) ==
    /\ rpc = "delete"
    /\ n \in ToDelete \ handled
    /\ gh_calls' = Ran("delete", n, o)
    /\ IF o = "nogh" THEN SysExit
       ELSE /\ handled' = handled \cup {n}
            /\ repo_content' =
                  IF o = "fail" THEN repo_content
                  ELSE [repo_content EXCEPT ![item_type][n] = "absent"]
            /\ overall_success' = (overall_success /\ o # "fail")
            /\ op_log' = op_log \cup
                  (CASE o = "ok" -> {"Successfully deleted"}
                     [] o = "404" -> {"Warning: HTTP 404", "Successfully deleted"}
                     [] o = "fail" -> {"Fatal error occurred", "Failed to delete"})
            /\ UNCHANGED << rpc, item_type, existing, op_result >>
    /\ UNCHANGED << delete_list, to_set, force >>

\* A dict is iterated in insertion order; the names are explored in the order
\* the file lists them, which is taken to be their alphabetical order.
NextToSet ==
    CHOOSE n \in Requested(item_type) \ handled :
        \A m \in Requested(item_type) \ handled : n = m \/ n = "A"

\* Lines 315-317 and 324-326 with set_github_secret / set_github_variable
\* (lines 152-191): one iteration of a set loop. An item whose name is in the
\* fetched set is skipped unless force is given; the skip returns True.
SetItem(o) ==
    /\ rpc = "set"
    /\ Requested(item_type) \ handled # {}
    /\ LET n == NextToSet IN
       IF ~force /\ n \in existing[item_type]
       THEN /\ o = "ok"
            /\ handled' = handled \cup {n}
            /\ op_log' = op_log \cup {"Skipping"}
            /\ UNCHANGED << repo_content, rpc, item_type, existing,
                            overall_success, gh_calls, op_result >>
       ELSE /\ gh_calls' = Ran("set", n, o)
            /\ IF o = "nogh" THEN SysExit
               ELSE /\ handled' = handled \cup {n}
                    /\ repo_content' =
                          IF o = "fail" THEN repo_content
                          ELSE [repo_content EXCEPT
                                   ![item_type][n] = to_set[item_type][n]]
                    /\ overall_success' = (overall_success /\ o = "ok")
                    /\ op_log' = op_log \cup
                          (IF o = "ok" THEN {"Successfully set"}
                           ELSE {"Fatal error occurred", "Failed to set"})
                    /\ UNCHANGED << rpc, item_type, existing, op_result >>
    /\ UNCHANGED << delete_list, to_set, force >>

\* The names the current loop still has to go through.
LoopRest ==
    IF rpc = "delete" THEN ToDelete \ handled
    ELSE Requested(item_type) \ handled

\* Variant of LoopEnd: the set loops follow the deletions at once, with the
\* sets of the fetch made before the deletions.
LoopEndNoRefetch ==
    /\ rpc \in {"delete", "set"}
    /\ LoopRest = {}
    /\ handled' = {}
    /\ IF item_type = "secret"
       THEN /\ item_type' = "variable"
            /\ UNCHANGED rpc
       ELSE /\ item_type' = "secret"
            /\ rpc' = IF rpc = "delete" THEN "set" ELSE "end"
    /\ UNCHANGED << repo_content, delete_list, to_set, force, existing,
                    overall_success, gh_calls, op_log, op_result >>

\* A loop of lines 278-326 is over: the variables follow the secrets, the
\* second fetch follows the deletions and the end follows the set loops.
LoopEnd ==
    /\ rpc \in {"delete", "set"}
    /\ LoopRest = {}
    /\ handled' = {}
    /\ IF item_type = "secret"
       THEN /\ item_type' = "variable"
            /\ UNCHANGED rpc
       ELSE /\ item_type' = "secret"
            /\ rpc' = IF rpc = "delete" THEN "fetch2" ELSE "end"
    /\ UNCHANGED << repo_content, delete_list, to_set, force, existing,
                    overall_success, gh_calls, op_log, op_result >>

\* Lines 331-336: the closing message and the return value.
Return ==
    /\ rpc = "end"
    /\ rpc' = "returned"
    /\ op_result' = IF overall_success THEN "true" ELSE "false"
    /\ op_log' = op_log \cup
          (IF overall_success THEN {"Successfully processed"}
           ELSE {"Some operations failed"})
    /\ UNCHANGED << repo_content, delete_list, to_set, force, item_type,
                    existing, handled, overall_success, gh_calls >>

\* Nothing of the scheduler, of main() or of the tracker threads moves while
\* one call of process_single_repository is followed.
RepoFrame ==
    UNCHANGED << repositories, max_workers, stop_event, repo_statuses,
                 initial_total_repos_count, all_group_logs, stdout, pc, i,
                 cur, it, wpc, result, completed_repos_count, listener,
                 opStart, ret, nlogs, flushed, abortAt, stopWindow, mainVars,
                 apiVars, liveVars, runVars, lockVars >>

RepoNext ==
    \/ \E o \in {"ok", "fail", "nogh"} : FetchExisting(o) /\ RepoFrame
    \/ \E k \in Kinds : \E n \in ItemNames[k] :
          \E o \in {"ok", "404", "fail", "nogh"} : DeleteItem(n, o) /\ RepoFrame
    \/ \E o \in {"ok", "fail", "nogh"} : SetItem(o) /\ RepoFrame
    \/ LoopEnd /\ RepoFrame
    \/ Return /\ RepoFrame

RepoSpec == RepoInit /\ [][RepoNext]_vars

\* --------------------------------------- process_single_repository, twice
\* The per-repository task is called a second time on the same repository
\* with the same arguments, as a second run of the program does. The runs
\* followed are those in which every gh command ends with exit status 0.
TwiceOutcomes == {"ok"}

\* The first call has returned; the second call begins at line 270 with the
\* repository as the first call left it.
RunAgain ==
    /\ run = 1
    /\ rpc = "returned"
    /\ op_result \in {"true", "false"}
    /\ run' = 2
    /\ first_content' = repo_content
    /\ first_result' = op_result
    /\ rpc' = "fetch1"
    /\ item_type' = "secret"
    /\ existing' = [k \in Kinds |-> {}]
    /\ handled' = {}
    /\ overall_success' = TRUE
    /\ op_result' = "none"
    /\ UNCHANGED << repo_content, delete_list, to_set, force, gh_calls, op_log,
                    repositories, max_workers, stop_event, repo_statuses,
                    initial_total_repos_count, all_group_logs, stdout, pc, i,
                    cur, it, wpc, result, completed_repos_count, listener,
                    opStart, ret, nlogs, flushed, abortAt, stopWindow, mainVars,
                    apiVars, liveVars, lockVars >>

TwiceNext ==
    \/ \E o \in TwiceOutcomes : FetchExisting(o) /\ RepoFrame
    \/ \E k \in Kinds : \E n \in ItemNames[k] :
          \E o \in TwiceOutcomes : DeleteItem(n, o) /\ RepoFrame
    \/ \E o \in TwiceOutcomes : SetItem(o) /\ RepoFrame
    \/ LoopEnd /\ RepoFrame
    \/ Return /\ RepoFrame
    \/ RunAgain

TwiceSpec == RepoInit /\ [][TwiceNext]_vars

\* ------------------------------------------------------------ the locks
\* The threads of a run and the locks they take. Thread 1 runs
\* process_repositories, the next MaxWorkers threads are the pool's workers,
\* the last one is the abort listener. Every function of the status tracker
\* and of the log collector is one `with` block on its module's lock; the
\* body changes the map or writes to sys.stdout and calls nothing. A thread
\* that reaches a `with` waits until the lock is free. Which function a
\* thread calls next is left open among the functions its code calls.
LockThreads == 1..(MaxWorkers + 2)

Role(t) ==
    IF t = 1 THEN "scheduler"
    ELSE IF t = MaxWorkers + 2 THEN "listener" ELSE "worker"

StatusFunctions ==
    {"initialize_repository_statuses", "set_repository_status",
     "set_repository_in_progress", "get_repository_overall_status",
     "get_current_progress_summary"}

LogFunctions ==
    {"initialize_log_collector", "add_log_entry", "get_group_log_entries",
     "clear_group_log_entries"}

\* The lock a function takes: _status_lock (main_processor.py), _log_lock
\* (logs.py) or the lock of the AtomicInteger (lines 141-142).
LockOf(fn) ==
    IF fn \in StatusFunctions THEN "status"
    ELSE IF fn \in LogFunctions THEN "log" ELSE "counter"

\* The locking functions the code of a thread calls: process_repositories
\* (lines 176-271), _process_single_repository_worker with the operation it
\* runs (lines 117-155), _listen_for_user_stop_input (lines 52-72).
CallsOfRole(r) ==
    CASE r = "scheduler" ->
            (StatusFunctions \ {"set_repository_in_progress"}) \cup LogFunctions
      [] r = "worker" ->
            {"set_repository_in_progress", "add_log_entry", "completed_repos_count"}
      [] r = "listener" -> {"add_log_entry"}

\* The thread that holds a lock, 0 if none does.
Holder(l) ==
    CASE l = "status" -> status_lock
      [] l = "log" -> log_lock
      [] l = "counter" -> counter_lock

LockInit ==
    /\ tpc = [t \in LockThreads |-> "idle"]
    /\ tcall = [t \in LockThreads |-> NoCall]
    /\ status_lock = 0
    /\ log_lock = 0
    /\ counter_lock = 0
    /\ last = NoCall
    /\ seq_statuses = << >>
    /\ seq_total = 0
    /\ appended = << >>
    /\ ncalls = 0
    /\ repositories = << >>
    /\ max_workers = MaxWorkers
    /\ sleep_after_repo = 0
    /\ main_exit = "none"
    /\ stop_event = FALSE
    /\ repo_statuses = << >>
    /\ initial_total_repos_count = 0
    /\ all_group_logs = << >>
    /\ stdout = << >>
    /\ pc = "idle"
    /\ i = 1
    /\ cur = 0
    /\ it = 0
    /\ wpc = << >>
    /\ result = << >>
    /\ completed_repos_count = 0
    /\ listener = "listening"
    /\ opStart = << >>
    /\ ret = << >>
    /\ nlogs = << >>
    /\ flushed = << >>
    /\ abortAt = 0
    /\ stopWindow = {}
    /\ OpIdle
    /\ LiveIdle

\* Only the threads' positions and the locks change.
LockFrame ==
    UNCHANGED << schedVars, opVars, liveVars, mainVars, repo_statuses,
                 initial_total_repos_count, all_group_logs, stdout, last,
                 seq_statuses, seq_total, appended, ncalls >>

\* A thread calls a locking function and reaches its `with` statement.
LockEnter(t, fn) ==
    /\ tpc[t] = "idle"
    /\ fn \in CallsOfRole(Role(t))
    /\ tpc' = [tpc EXCEPT ![t] = "waiting"]
    /\ tcall' = [tcall EXCEPT ![t] = [NoCall EXCEPT !.op = fn]]
    /\ UNCHANGED << status_lock, log_lock, counter_lock >>
    /\ LockFrame

\* The lock is free and the waiting thread takes it (__enter__).
LockAcquire(t) ==
    /\ tpc[t] = "waiting"
    /\ Holder(LockOf(tcall[t].op)) = 0
    /\ tpc' = [tpc EXCEPT ![t] = "locked"]
    /\ status_lock' = IF LockOf(tcall[t].op) = "status" THEN t ELSE status_lock
    /\ log_lock' = IF LockOf(tcall[t].op) = "log" THEN t ELSE log_lock
    /\ counter_lock' = IF LockOf(tcall[t].op) = "counter" THEN t ELSE counter_lock
    /\ UNCHANGED tcall
    /\ LockFrame

\* Variant of LockRelease: the warning of set_repository_status for an
\* unknown repository is written with add_log_entry, inside the `with` block
\* of _status_lock.
LockReleaseAfterLogging(t) ==
    /\ tpc[t] = "locked"
    /\ IF tcall[t].op = "set_repository_status"
       THEN /\ tpc' = [tpc EXCEPT ![t] = "waiting"]
            /\ tcall' = [tcall EXCEPT ![t] = [NoCall EXCEPT !.op = "add_log_entry"]]
            /\ UNCHANGED << status_lock, log_lock, counter_lock >>
       ELSE /\ tpc' = [tpc EXCEPT ![t] = "idle"]
            /\ tcall' = [tcall EXCEPT ![t] = NoCall]
            /\ status_lock' = IF LockOf(tcall[t].op) = "status" THEN 0 ELSE status_lock
            /\ log_lock' = IF LockOf(tcall[t].op) = "log" THEN 0 ELSE log_lock
            /\ counter_lock' = IF LockOf(tcall[t].op) = "counter" THEN 0 ELSE counter_lock
    /\ LockFrame

\* The body of the `with` block is over and the lock is released (__exit__):
\* logs.py lines 19-23, 41-58, 70-71, 81-86; main_processor.py lines 279-284,
\* 290-299, 305-307, 315-316, 323-334 and 141-142. No body calls a locking
\* function or runs a command.
LockRelease(t) ==
    /\ tpc[t] = "locked"
    /\ tpc' = [tpc EXCEPT ![t] = "idle"]
    /\ tcall' = [tcall EXCEPT ![t] = NoCall]
    /\ status_lock' = IF LockOf(tcall[t].op) = "status" THEN 0 ELSE status_lock
    /\ log_lock' = IF LockOf(tcall[t].op) = "log" THEN 0 ELSE log_lock
    /\ counter_lock' = IF LockOf(tcall[t].op) = "counter" THEN 0 ELSE counter_lock
    /\ LockFrame

\* A gh command of the per-repository operation starts in a worker thread
\* or, with max_workers = 1, in the thread of process_repositories
\* (utils.py line 142, reached from run_gh_command outside every `with`).
ExternalBegin(t) ==
    /\ tpc[t] = "idle"
    /\ Role(t) \in {"scheduler", "worker"}
    /\ tpc' = [tpc EXCEPT ![t] = "external"]
    /\ UNCHANGED << tcall, status_lock, log_lock, counter_lock >>
    /\ LockFrame

\* The gh command has ended.
ExternalEnd(t) ==
    /\ tpc[t] = "external"
    /\ tpc' = [tpc EXCEPT ![t] = "idle"]
    /\ UNCHANGED << tcall, status_lock, log_lock, counter_lock >>
    /\ LockFrame

LockNext ==
    \/ \E t \in LockThreads, fn \in StatusFunctions \cup LogFunctions
                                   \cup {"completed_repos_count"} : LockEnter(t, fn)
    \/ \E t \in LockThreads : LockAcquire(t)
    \/ \E t \in LockThreads : LockRelease(t)
    \/ \E t \in LockThreads : ExternalBegin(t)
    \/ \E t \in LockThreads : ExternalEnd(t)

LockSpec == LockInit /\ [][LockNext]_vars

\* ------------------------------------------------ hangs and the terminal
\* process_repositories with an operation that may never return, and with the
\* listener's reads of the terminal followed one by one. The threads are
\* scheduled fairly: a thread that can take a step takes one in the end, and
\* an operation returns in the end unless it is the one that hangs.

\* Longest repository list explored together with a hang.
LiveMaxRepos == 3

\* Longest repository list explored together with the terminal.
TerminalMaxRepos == 2

\* The lists: the first names, each once.
LiveLists ==
    { s \in RepoLists :
        Len(s) <= LiveMaxRepos /\ \A n \in DOMAIN s : s[n] = RepoNames[n] }

\* The state in which process_repositories is called.
SchedulingStart ==
    /\ max_workers \in 1..MaxWorkers
    /\ stdin = "none"
    /\ sleep_after_repo = 0
    /\ main_exit = "none"
    /\ ApiIdle
    /\ OpIdle
    /\ stop_event = FALSE
    /\ repo_statuses = << >>
    /\ initial_total_repos_count = 0
    /\ all_group_logs = << >>
    /\ stdout = << >>
    /\ pc = "start"
    /\ i = 1
    /\ cur = 0
    /\ it = 0
    /\ wpc = [p \in Positions |-> "none"]
    /\ result = [p \in Positions |-> FALSE]
    /\ completed_repos_count = 0
    /\ listener = "listening"
    /\ opStart = [p \in Positions |-> "none"]
    /\ ret = [p \in Positions |-> "none"]
    /\ nlogs = [p \in Positions |-> 0]
    /\ flushed = [p \in Positions |-> 0]
    /\ abortAt = 0
    /\ stopWindow = {}

\* The steps of the thread that runs process_repositories; the operation it
\* calls itself in sequential mode returns unless it hangs.
SchedulerStep ==
    \/ Begin
    \/ SeqCheck
    \/ SeqCall
    \/ \E outcome \in Outcomes : i # hung /\ SeqOpEnd(outcome)
    \/ FlushNext
    \/ SeqClear
    \/ Finish
    \/ PoolSubmit
    \/ \E p \in Positions : PoolHandle(p)
    \/ PoolClear
    \/ PoolExit

\* The steps of the worker thread that runs the task of position p.
WorkerStep(p) ==
    /\ p \in Positions
    /\ \/ WorkerBegin(p)
       \/ WorkerCall(p)
       \/ \E outcome \in Outcomes : p # hung /\ WorkerOpEnd(p, outcome)

\* One operation of the list hangs once it is called.
HangInit ==
    /\ repositories \in LiveLists
    /\ hung \in 1..Len(repositories)
    /\ isatty = TRUE
    /\ SchedulingStart

HangNext ==
    \/ SchedulerStep
    \/ \E p \in Positions : WorkerStep(p)
    \/ \E p \in Positions : OpLog(p)
    \/ \E kind \in {"q", "eof"} : ListenerAbort(kind)

HangSpec ==
    /\ HangInit
    /\ [][HangNext]_vars
    /\ WF_vars(SchedulerStep)
    /\ \A p \in 1..LiveMaxRepos : WF_vars(WorkerStep(p))

\* Every operation returns or raises: the lists with each name once, and
\* the shorter lists with a name twice.
EndLists ==
    LiveLists \cup { s \in RepoLists : Len(s) <= TerminalMaxRepos }

EndInit ==
    /\ repositories \in EndLists
    /\ hung = 0
    /\ isatty = TRUE
    /\ SchedulingStart

EndSpec ==
    /\ EndInit
    /\ [][HangNext]_vars
    /\ WF_vars(SchedulerStep)
    /\ \A p \in 1..LiveMaxRepos : WF_vars(WorkerStep(p))

\* The terminal delivers a line ('q' or another one) or the end of the input
\* to the next input() call.
TerminalInput(x) ==
    /\ listener = "listening"
    /\ pc # "done"
    /\ stdin = "none"
    /\ stdin' = x
    /\ UNCHANGED << repositories, max_workers, stop_event, repo_statuses,
                    initial_total_repos_count, all_group_logs, stdout, pc, i,
                    cur, it, wpc, result, completed_repos_count, listener,
                    opStart, ret, nlogs, flushed, abortAt, stopWindow,
                    mainVars, apiVars, opVars, lockVars, hung, isatty >>

\* Variant of ListenerRead: the end of the input does not end the loop.
ListenerReadIgnoresEof ==
    /\ listener = "listening"
    /\ pc # "done"
    /\ isatty
    /\ stdin # "none"
    /\ IF stdin = "other"
       THEN /\ stdin' = "none"
            /\ UNCHANGED << stop_event, listener, stopWindow >>
       ELSE /\ stdin = "q"
            /\ stop_event' = TRUE
            /\ listener' = "stopped"
            /\ stopWindow' = {p \in Positions : PastCheck(p)}
            /\ UNCHANGED stdin
    /\ UNCHANGED << repositories, max_workers, repo_statuses,
                    initial_total_repos_count, all_group_logs, stdout, pc, i,
                    cur, it, wpc, result, completed_repos_count, opStart, ret,
                    nlogs, flushed, abortAt, mainVars, apiVars, opVars, lockVars, hung,
                    isatty >>

\* _listen_for_user_stop_input, lines 53-68: on a terminal input() returns
\* what was delivered; 'q' and the end of the input set the flag and end the
\* loop, any other line is dropped. Without a terminal (lines 69-71) the
\* thread only sleeps and reads nothing. The thread is a daemon: it ends with
\* the program once process_repositories has returned.
ListenerRead ==
    /\ listener = "listening"
    /\ pc # "done"
    /\ isatty
    /\ stdin # "none"
    /\ IF stdin = "other"
       THEN /\ stdin' = "none"
            /\ UNCHANGED << stop_event, listener, stopWindow >>
       ELSE /\ stop_event' = TRUE
            /\ listener' = "stopped"
            /\ stopWindow' = {p \in Positions : PastCheck(p)}
            /\ UNCHANGED stdin
    /\ UNCHANGED << repositories, max_workers, repo_statuses,
                    initial_total_repos_count, all_group_logs, stdout, pc, i,
                    cur, it, wpc, result, completed_repos_count, opStart, ret,
                    nlogs, flushed, abortAt, mainVars, apiVars, opVars, lockVars, hung,
                    isatty >>

\* The input is a terminal or not; an operation may hang, so that the run
\* need not end.
TerminalInit ==
    /\ repositories \in { s \in LiveLists : Len(s) <= TerminalMaxRepos }
    /\ hung \in 0..Len(repositories)
    /\ isatty \in BOOLEAN
    /\ SchedulingStart

TerminalNext ==
    \/ SchedulerStep
    \/ \E p \in Positions : WorkerStep(p)
    \/ \E p \in Positions : OpLog(p)
    \/ \E x \in {"q", "other", "eof"} : TerminalInput(x)
    \/ ListenerRead

TerminalSpec ==
    /\ TerminalInit
    /\ [][TerminalNext]_vars
    /\ WF_vars(SchedulerStep)
    /\ \A p \in 1..TerminalMaxRepos : WF_vars(WorkerStep(p))
    /\ WF_vars(ListenerRead)

\* ------------------------------------------------------------- helpers
Occurrences(n) == {p \in Positions : repositories[p] = n}

OccursOnce(n) == Cardinality(Occurrences(n)) = 1

PendingRec == [success |-> FALSE, status |-> "pending"]
FailedRec == [success |-> FALSE, status |-> "failed"]
CompletedRec == [success |-> TRUE, status |-> "completed"]

Terminal == {"completed", "failed"}

Flushing == pc \in {"seq_flush", "seq_clear", "pool_flush", "pool_clear"}

\* The step that records the result of position p (line 202/205 or 245).
Records(p) == ~Flushing /\ pc' \in {"seq_flush", "pool_flush"} /\ cur' = p

\* A pool task that returned at line 121 without running the operation.
Skipped(p) == wpc[p] = "finished" /\ ret[p] = "none"

\* ------------------------------------------------------------------ C1
\* C1 as stated: no call of the per-repository operation begins after the
\* cancellation flag has been set (the flag check and the start of the
\* operation are not separated by a set() of the flag).
C1_NoStartAfterStop ==
    \A p \in Positions : opStart[p] # "set"

\* C1 amended: an operation begins after the flag has been set only in a task
\* that had read the flag clear (line 187 / 119) before the set and had not
\* yet entered the operation; a task whose flag check comes after the set
\* never begins its operation. At most one such task exists per executing
\* thread: one in sequential mode, max_workers in pooled mode.
C1_StartAfterStopOnlyPastCheck ==
    /\ \A p \in Positions : opStart[p] = "set" => p \in stopWindow
    /\ Cardinality(stopWindow) <= max_workers

C1_Witness ==
    /\ max_workers > 1
    /\ \E p \in Positions, q \in Positions :
          /\ opStart[p] = "set"
          /\ ret[p] # "none"
          /\ Skipped(q)

C3_SkipStep ==
    \A p \in Positions :
        (wpc[p] = "queued" /\ wpc'[p] # "queued" /\ stop_event) =>
            /\ wpc'[p] = "finished"
            /\ result'[p] = FALSE
            /\ repo_statuses' = repo_statuses
            /\ opStart'[p] = "none"

C3_RecordStep ==
    \A p \in Positions :
        (Records(p) /\ Skipped(p)) =>
            repo_statuses'[repositories[p]] = FailedRec

C3_SkipState ==
    \A p \in Positions :
        Skipped(p) =>
            /\ opStart[p] = "none"
            /\ nlogs[p] = 0
            /\ result[p] = FALSE
            /\ pc = "done" =>
                  /\ flushed[p] = 1
                  /\ repo_statuses[repositories[p]].status # "pending"

C3_SkippedTaskFails ==
    /\ [][C3_SkipStep]_vars
    /\ [][C3_RecordStep]_vars
    /\ []C3_SkipState

C3_Witness ==
    /\ pc = "done"
    /\ max_workers > 1
    /\ \E p \in Positions :
          /\ Skipped(p)
          /\ OccursOnce(repositories[p])
          /\ repo_statuses[repositories[p]] = FailedRec
          /\ \E q \in Positions : ret[q] = "true"

C5_RecordStep ==
    \A p \in Positions :
        Records(p) =>
            repo_statuses'[repositories[p]] =
                IF ret'[p] = "true" THEN CompletedRec ELSE FailedRec

C5_AllProcessed ==
    (pc = "done" /\ ~stop_event) =>
        \A p \in Positions :
            /\ opStart[p] = "clear"
            /\ ret[p] # "none"
            /\ flushed[p] = 1

C6_TerminalAbsorbing ==
    [][\A n \in DOMAIN repo_statuses :
          repo_statuses[n].status \in Terminal =>
              repo_statuses'[n] = repo_statuses[n]]_vars

\* ------------------------------------------------------------------ C7
\* C7 as stated: in both modes a lifecycle only moves Pending -> InProgress ->
\* {Completed, Failed}: no step takes a repository from Pending to a terminal
\* lifecycle.
C7_NoPendingToTerminal ==
    [][\A n \in DOMAIN repo_statuses :
          repo_statuses[n].status = "pending" =>
              repo_statuses'[n].status \in {"pending", "in_progress"}]_vars

Rank(status) ==
    CASE status = "pending" -> 0
      [] status = "in_progress" -> 1
      [] OTHER -> 2

C7_ForwardStep ==
    \A n \in DOMAIN repo_statuses :
        Rank(repo_statuses'[n].status) >= Rank(repo_statuses[n].status)

C7_State ==
    /\ \A p \in Positions :
          wpc[p] \in {"call", "op"} =>
              repo_statuses[repositories[p]].status # "pending"
    /\ \A n \in DOMAIN repo_statuses :
          max_workers = 1 => repo_statuses[n].status # "in_progress"

\* C7 amended: a lifecycle never moves backwards in the order Pending,
\* InProgress, {Completed, Failed}. Pooled mode marks a repository InProgress
\* before its operation begins; a pooled task skipped on abort goes from
\* Pending to Failed directly, and sequential mode never uses InProgress: it
\* records Completed or Failed on a Pending repository.
C7_LifecycleForward ==
    /\ [][C7_ForwardStep]_vars
    /\ []C7_State

C7_Witness ==
    /\ max_workers > 1
    /\ \E p \in Positions, q \in Positions :
          /\ wpc[p] = "op"
          /\ repo_statuses[repositories[p]].status = "in_progress"
          /\ Skipped(q)
          /\ flushed[q] = 1
          /\ repo_statuses[repositories[q]] = FailedRec

\* ------------------------------------------------------------------ C8
\* C8: when a run in which the flag was never set returns, the progress
\* summary is (len(R), len(R), 0).
C8_FinalProgress ==
    (pc = "done" /\ ~stop_event) =>
        get_current_progress_summary(repo_statuses, initial_total_repos_count)
            = << Len(repositories), Len(repositories), 0 >>

Contiguous(n) ==
    \A a \in 1..Len(stdout), c \in 1..Len(stdout) :
        (a < c /\ stdout[a].grp = n /\ stdout[c].grp = n) =>
            \A b \in a..c : stdout[b].grp \in {None, n}

AppendedBy(p) ==
    (IF max_workers = 1
     THEN << Msg(repositories[p], p, "Currently processing") >> ELSE << >>)
    \o (IF nlogs[p] > 0 THEN << Msg(repositories[p], p, "operation") >> ELSE << >>)
    \o (IF ret[p] = "raise"
        THEN << Msg(repositories[p], p, "Error processing repository") >>
        ELSE IF max_workers > 1
             THEN << Msg(repositories[p], p, "Repository processing ended") >>
             ELSE << >>)

\* The lines of the console that carry message m.
PrintedAt(m) == {k \in 1..Len(stdout) : stdout[k] = m}

\* C11: the scheduler's read + print + clear of a group is one unit with
\* respect to appends on that group: when process_repositories returns, every
\* message a task appended to its group has been printed exactly once, in
\* append order; none was lost by the clear and none was printed twice.
C11_AtomicFlush ==
    pc = "done" =>
        \A p \in Positions :
            ret[p] # "none" =>
                /\ \A k \in 1..Len(AppendedBy(p)) :
                      Cardinality(PrintedAt(AppendedBy(p)[k])) = 1
                /\ \A k \in 1..Len(AppendedBy(p)), l \in 1..Len(AppendedBy(p)) :
                      k < l =>
                          \A a \in PrintedAt(AppendedBy(p)[k]),
                             b \in PrintedAt(AppendedBy(p)[l]) : a < b

\* ----------------------------------------------------------------- C12
\* C12: for concurrent add_log_entry calls on known groups in any
\* interleaving, every group's buffer holds exactly the messages appended to
\* that group, in append order: a stored message goes to the end of its own
\* group's buffer and to no other, none is dropped, and
\* get_group_log_entries returns that buffer.
C12_LogIsolation ==
    /\ DOMAIN all_group_logs = DOMAIN appended
    /\ \A g \in DOMAIN all_group_logs :
          /\ all_group_logs[g] = appended[g]
          /\ \A k \in 1..Len(all_group_logs[g]) : all_group_logs[g][k].grp = g
    /\ (last.op = "add_log_entry" /\ last.arg /\ last.name \in DOMAIN last.logs) =>
          /\ all_group_logs[last.name] = Append(last.logs[last.name], last.result)
          /\ \A g \in DOMAIN last.logs \ {last.name} :
                all_group_logs[g] = last.logs[g]
    /\ (last.op = "get_group_log_entries" /\ last.name \in DOMAIN appended) =>
          last.result = appended[last.name]

C12_Witness ==
    /\ last.op = "get_group_log_entries"
    /\ last.name = "r1"
    /\ Len(last.result) = 1
    /\ last.result[1].src = 1
    /\ "r2" \in DOMAIN all_group_logs
    /\ Len(all_group_logs["r2"]) = 1
    /\ all_group_logs["r2"][1].src = 2
    /\ all_group_logs["r2"][1].txt = "2"

\* ----------------------------------------------------------------- C13
\* C13: for set_repository_in_progress and set_repository_status calls made
\* by different threads in any interleaving, the status map is the result of
\* applying the calls one at a time in the order they took the lock: whenever
\* no call is inside its body the map and the total equal that result, every
\* read returns what that result gives, no update is lost, and a call leaves
\* the entries of the other repositories as it found them.
C13_Linearizable ==
    /\ status_lock = 0 =>
          /\ repo_statuses = seq_statuses
          /\ initial_total_repos_count = seq_total
          /\ \A t \in Threads : tpc[t] = "idle"
    /\ status_lock # 0 =>
          \A t \in Threads : (tpc[t] = "status_locked") = (t = status_lock)
    /\ last.op = "get_repository_overall_status" =>
          last.result = get_repository_overall_status(seq_statuses, last.name)
    /\ last.op = "get_current_progress_summary" =>
          last.result = get_current_progress_summary(seq_statuses, seq_total)
    /\ (status_lock = 0
        /\ last.op \in {"set_repository_status", "set_repository_in_progress"}) =>
          /\ DOMAIN repo_statuses = DOMAIN last.statuses
          /\ \A n \in DOMAIN last.statuses \ {last.name} :
                repo_statuses[n] = last.statuses[n]

C13_Witness ==
    /\ status_lock = 0
    /\ last.op = "set_repository_status"
    /\ last.name = "r2"
    /\ last.arg
    /\ DOMAIN last.statuses = {"r1", "r2"}
    /\ last.statuses["r1"].status = "in_progress"
    /\ last.statuses["r2"].status = "pending"
    /\ repo_statuses["r1"] = [success |-> FALSE, status |-> "in_progress"]
    /\ repo_statuses["r2"] = CompletedRec

\* ----------------------------------------------------------------- C14
\* C14: right after initialize_repository_statuses(R), with no further
\* update, the progress summary is (len(R), 0, 0), every repository of R is
\* Pending with success false, and the map holds the names of R only: what
\* an earlier initialization and its updates left is discarded.
C14_Initialization ==
    (status_lock = 0 /\ last.op = "initialize_repository_statuses") =>
        /\ get_current_progress_summary(repo_statuses, initial_total_repos_count)
              = << Len(last.arg), 0, 0 >>
        /\ DOMAIN repo_statuses = {last.arg[p] : p \in 1..Len(last.arg)}
        /\ \A p \in 1..Len(last.arg) : repo_statuses[last.arg[p]] = PendingRec

C14_Witness ==
    /\ status_lock = 0
    /\ last.op = "initialize_repository_statuses"
    /\ last.arg = << "r1", "r1" >>
    /\ DOMAIN last.statuses = {"r1", "r2"}
    /\ last.statuses["r1"] = CompletedRec
    /\ last.total = 2
    /\ initial_total_repos_count = 2
    /\ repo_statuses["r1"] = PendingRec

\* ----------------------------------------------------------------- C15
\* C15: set_repository_in_progress changes a lifecycle only from Pending to
\* InProgress: on a repository that is InProgress, Completed or Failed (or
\* unknown) it changes nothing, a second call changes nothing, and the
\* success flag is never modified.
C15_InProgressOnlyFromPending ==
    (status_lock = 0 /\ last.op = "set_repository_in_progress") =>
        /\ DOMAIN repo_statuses = DOMAIN last.statuses
        /\ \A n \in DOMAIN repo_statuses :
              /\ repo_statuses[n].success = last.statuses[n].success
              /\ repo_statuses[n].status =
                    IF n = last.name /\ last.statuses[n].status = "pending"
                    THEN "in_progress"
                    ELSE last.statuses[n].status
        /\ set_repository_in_progress(repo_statuses, last.name) = repo_statuses

C15_Witness ==
    /\ status_lock = 0
    /\ last.op = "set_repository_in_progress"
    /\ last.name = "r1"
    /\ DOMAIN last.statuses = {"r1", "r2"}
    /\ last.statuses["r1"] = CompletedRec
    /\ last.statuses["r2"].status = "in_progress"
    /\ repo_statuses = last.statuses

\* ----------------------------------------------------------------- C16
\* C16: set_repository_status is last-write-wins from any lifecycle: after
\* set_repository_status(r, success) on a known repository r, whatever r's
\* lifecycle was (Completed and Failed included), r is Completed with success
\* true if success, Failed with success false otherwise.
C16_LastWriteWins ==
    (status_lock = 0 /\ last.op = "set_repository_status"
     /\ last.name \in DOMAIN last.statuses) =>
        repo_statuses[last.name] = IF last.arg THEN CompletedRec ELSE FailedRec

C16_Witness ==
    /\ status_lock = 0
    /\ last.op = "set_repository_status"
    /\ last.name = "r1"
    /\ ~last.arg
    /\ "r1" \in DOMAIN last.statuses
    /\ last.statuses["r1"] = CompletedRec
    /\ repo_statuses["r1"] = FailedRec

\* ----------------------------------------------------------------- C17
\* C17: for a name that is not in the status map, set_repository_status and
\* set_repository_in_progress return with the whole map and the total count
\* unchanged, and get_repository_overall_status returns false and adds no
\* entry.
C17_UnknownRepository ==
    (status_lock = 0 /\ last.name # None /\ last.name \notin DOMAIN last.statuses) =>
        /\ last.op \in {"set_repository_status", "set_repository_in_progress",
                        "get_repository_overall_status"} =>
              /\ repo_statuses = last.statuses
              /\ initial_total_repos_count = last.total
        /\ last.op = "get_repository_overall_status" => last.result = FALSE

C17_Witness ==
    /\ status_lock = 0
    /\ last.op = "set_repository_status"
    /\ last.name = "r2"
    /\ last.arg
    /\ DOMAIN last.statuses = {"r1"}
    /\ last.statuses["r1"].status = "in_progress"
    /\ stdout = << Msg(None, 0, "WARN: Status Update") >>

\* ----------------------------------------------------------------- C18
\* C18: add_log_entry(g, m) with store true and g not among the initialized
\* groups returns having stored nothing (no group is created, no buffer
\* changes) and having written one warning to the console;
\* clear_group_log_entries(g) on an unknown g likewise writes one warning and
\* changes no buffer.
C18_UnknownLogGroup ==
    /\ (last.op = "add_log_entry" /\ last.arg /\ last.name # None
        /\ last.name \notin DOMAIN last.logs) =>
          /\ all_group_logs = last.logs
          /\ stdout = Append(last.out, Msg(None, 0, "WARN: Missing Log Group"))
    /\ (last.op = "clear_group_log_entries"
        /\ last.name \notin DOMAIN last.logs) =>
          /\ all_group_logs = last.logs
          /\ stdout = Append(last.out, Msg(None, 0, "WARN: Clear Logs"))

C18_Witness ==
    /\ last.op = "add_log_entry"
    /\ last.arg
    /\ last.name = "r2"
    /\ DOMAIN last.logs = {"r1"}
    /\ Len(last.logs["r1"]) = 1
    /\ Len(stdout) = 2
    /\ stdout[1] = Msg(None, 0, "WARN: Clear Logs")
    /\ stdout[2] = Msg(None, 0, "WARN: Missing Log Group")

\* ----------------------------------------------------------------- C19
\* A step of process_repositories is running or has run.
Scheduling == pc \notin {"main", "main_repos", "exited"}

\* C19: constructing the configuration with max_workers < 1 or
\* sleep_after_repo < 0 fails with an error (ValueError), and main() ends
\* there: no step of process_repositories runs with a width below 1 or a
\* negative pause.
C19_ConfigValidation ==
    /\ (max_workers < 1 \/ sleep_after_repo < 0) =>
          /\ pc = "main" \/ (pc = "exited" /\ main_exit = "ValueError")
          /\ repo_statuses = << >> /\ all_group_logs = << >>
          /\ listener = "unstarted"
    /\ Scheduling => (max_workers >= 1 /\ sleep_after_repo >= 0)

C19_Witness ==
    /\ pc = "exited"
    /\ main_exit = "ValueError"
    /\ max_workers = 0
    /\ sleep_after_repo = 1
    /\ Len(repositories) = 2

\* ----------------------------------------------------------------- C20
\* C20 as stated: with an empty repository list the run aborts with an error
\* before scheduling starts.
C20_EmptyListIsError ==
    (Len(repositories) = 0 /\ pc \notin {"main", "main_repos"}) =>
        (pc = "exited" /\ main_exit \notin {"none", "sys.exit(0)"})

\* C20 amended: with an empty repository list and a valid configuration
\* main() prints a notice and ends through sys.exit(0), exit status 0 and no
\* error, before scheduling starts: the trackers are not initialized, the
\* listener is not started, nothing is dispatched and process_repositories
\* does not run to its end.
C20_EmptyListExitsBeforeScheduling ==
    Len(repositories) = 0 =>
        /\ ~Scheduling
        /\ pc = "exited" =>
              main_exit = (IF post_init(max_workers, sleep_after_repo) = "ok"
                           THEN "sys.exit(0)" ELSE "ValueError")
        /\ repo_statuses = << >>
        /\ initial_total_repos_count = 0
        /\ all_group_logs = << >>
        /\ listener = "unstarted"
        /\ stdout = << >>

C20_Witness ==
    /\ Len(repositories) = 0
    /\ pc = "exited"
    /\ main_exit = "sys.exit(0)"
    /\ max_workers = 2
    /\ sleep_after_repo = 1

\* ----------------------------------------------------- gh calls of a task
\* The gh commands of one sort and one item type, as positions of gh_calls.
CallsOf(cmd, k) ==
    { x \in 1..Len(gh_calls) : gh_calls[x].cmd = cmd /\ gh_calls[x].type = k }

\* The m-th list command of type k: m = 1 is the fetch before the deletions,
\* m = 2 the fetch after them.
ListCall(k, m) ==
    gh_calls[CHOOSE x \in CallsOf("list", k) :
                Cardinality({ y \in CallsOf("list", k) : y <= x }) = m]

Listed(k, m) == Cardinality(CallsOf("list", k)) >= m

\* What a list command gave to the task: the names the repository held, or
\* nothing when the command failed.
Fetched(c) == IF c.outcome = "ok" THEN c.held ELSE {}

NamesOf(calls) == { gh_calls[x].name : x \in calls }

\* The task has returned a value.
HasReturned == op_result \in {"true", "false"}

\* Both delete loops are over.
DeletesOver == rpc \in {"fetch2", "set", "end"} \/ HasReturned

\* C21 -- Delete-intersection law: with D the requested delete list and E the
\* items that exist in the repository when the first fetch is made, the task
\* issues a delete command for no name twice and for no name outside E, and
\* once its delete loops are over it has issued one for exactly the names of
\* D \cap E.
C21_DeleteIntersection ==
    \A k \in Kinds :
        /\ \A x, y \in CallsOf("delete", k) :
              gh_calls[x].name = gh_calls[y].name => x = y
        /\ Listed(k, 1) =>
              NamesOf(CallsOf("delete", k)) \subseteq ListCall(k, 1).held
        /\ DeletesOver =>
              NamesOf(CallsOf("delete", k)) =
                  ToSet(delete_list[k]) \cap ListCall(k, 1).held

\* The same law with E the set the first fetch gave to the task, which is
\* empty when the list command failed.
DeleteIntersectionOfFetched ==
    \A k \in Kinds :
        /\ \A x, y \in CallsOf("delete", k) :
              gh_calls[x].name = gh_calls[y].name => x = y
        /\ DeletesOver =>
              NamesOf(CallsOf("delete", k)) =
                  ToSet(delete_list[k]) \cap Fetched(ListCall(k, 1))

\* The law of C21 on the runs whose first list commands succeeded.
C21_OnlyAfterFailedFetch ==
    (\A k \in Kinds : Listed(k, 1) => ListCall(k, 1).outcome = "ok")
        => C21_DeleteIntersection

\* Both set loops are over.
SetsOver == rpc = "end" \/ HasReturned

\* A delete or set command of the task ended with a failure.
SomeItemFailed ==
    \E x \in 1..Len(gh_calls) :
        gh_calls[x].cmd \in {"delete", "set"} /\ gh_calls[x].outcome = "fail"

ItemCalls ==
    { x \in 1..Len(gh_calls) : gh_calls[x].cmd \in {"delete", "set"} }

\* A command of the task did not find the gh executable.
GhMissing == \E x \in 1..Len(gh_calls) : gh_calls[x].outcome = "nogh"

\* C23 (as stated) -- Aggregated result: the value the task returns is True
\* if and only if every delete and every set command it issued ended with
\* exit status 0.
C23_TrueIffAllSucceeded ==
    HasReturned =>
        (op_result = "true"
            <=> \A x \in ItemCalls : gh_calls[x].outcome = "ok")

\* C23 (amended) -- Aggregated result: a delete answered with HTTP 404 counts
\* as success. When the task is over it has returned True if and only if
\* every command found gh and no delete or set command failed otherwise; it
\* has returned False if and only if every command found gh and a delete or
\* set command failed; it has not returned (sys.exit(1)) if and only if a
\* command did not find gh.
C23_AggregatedResult ==
    rpc = "returned" =>
        /\ op_result = "true" <=> (~GhMissing /\ ~SomeItemFailed)
        /\ op_result = "false" <=> (~GhMissing /\ SomeItemFailed)
        /\ op_result = "SystemExit" <=> GhMissing

\* The task returned True although a delete command was answered with 404.
C23_Witness ==
    /\ op_result = "true"
    /\ \E x \in ItemCalls :
          gh_calls[x].cmd = "delete" /\ gh_calls[x].outcome = "404"
    /\ \E x \in ItemCalls :
          gh_calls[x].cmd = "set" /\ gh_calls[x].outcome = "ok"

\* A gh command of the task (list, delete or set) ended with a failure that
\* the code does not take for the answer "no such item".
SomeCallFailed ==
    \E x \in 1..Len(gh_calls) : gh_calls[x].outcome = "fail"

\* C24 -- A single failure of an external call (list, delete or set) makes
\* the repository Failed: a task in which a gh command failed returns False,
\* the value for which the scheduler records the repository as failed.
C24_AnyCallFailureFails ==
    (HasReturned /\ SomeCallFailed) => op_result = "false"

\* ------------------------------------------------------- scheduling modes
\* The positions whose per-repository operation is executing.
Executing == { p \in Positions : InOperation(p) }

\* Where the scheduler thread stands in the sequential branch, and where in
\* the pooled branch.
SequentialSteps == {"seq_check", "seq_call", "seq_op", "seq_flush", "seq_clear"}
PooledSteps == {"pool_submit", "pool_wait", "pool_flush", "pool_clear"}

\* C25 -- Bounded pool: never more than max_workers operations execute at a
\* time, which is at most one when max_workers is 1; one call of
\* process_repositories runs either the sequential branch (max_workers = 1,
\* no task is ever handed to an executor) or the pooled branch
\* (max_workers > 1, the scheduler thread never calls the operation itself).
C25_BoundedPool ==
    /\ Cardinality(Executing) <= max_workers
    /\ Cardinality(Active) <= max_workers
    /\ max_workers = 1 =>
          /\ pc \notin PooledSteps
          /\ \A p \in Positions : wpc[p] = "none"
    /\ max_workers > 1 =>
          /\ pc \notin SequentialSteps
          /\ \A p \in Positions : opStart[p] # "none" => wpc[p] \in {"op", "finished"}

\* Width 2: two operations execute while a third task waits for a worker.
C25_Witness ==
    /\ max_workers = 2
    /\ Cardinality(Executing) = 2
    /\ \E p \in Positions : wpc[p] = "queued"

\* The messages of the task at position p that its group still holds.
HeldFor(p) ==
    IF repositories[p] \in DOMAIN all_group_logs
    THEN { k \in 1..Len(all_group_logs[repositories[p]]) :
              all_group_logs[repositories[p]][k].src = p }
    ELSE {}

\* C30 -- Sequential ordering: in sequential mode, once the operation of a
\* list position has begun, the operation of every earlier position has begun
\* and ended, its result is recorded as a terminal status, every message its
\* task appended to its group is printed, the group was cleared once for it
\* and holds none of its messages.
C30_SequentialOrder ==
    max_workers = 1 =>
        \A p \in Positions : opStart[p] # "none" =>
            \A q \in 1..(p - 1) :
                /\ opStart[q] # "none"
                /\ ret[q] # "none"
                /\ repo_statuses[repositories[q]].status \in Terminal
                /\ flushed[q] = 1
                /\ \A k \in 1..Len(AppendedBy(q)) : PrintedAt(AppendedBy(q)[k]) # {}
                /\ HeldFor(q) = {}

\* The operation of the third repository runs after the first two, which
\* logged messages and ended differently, were recorded and flushed.
C30_Witness ==
    /\ max_workers = 1
    /\ pc = "seq_op"
    /\ i = 3
    /\ nlogs[1] = 1
    /\ nlogs[2] = 1
    /\ ret[1] = "true"
    /\ ret[2] = "raise"

\* ------------------------------------------------------ progress reporting
\* The progress lines on the console (each stands for the pair of lines 258
\* and 262: the summary and the elapsed time).
ProgressLines(out) == { k \in 1..Len(out) : out[k].txt = "[Progress]" }

\* The completions the scheduler has handled to the end (lines 241-262).
HandledCompletions == { p \in Positions : flushed[p] > 0 }

\* C28 (as stated) -- Progress reporting in pooled mode: every completion the
\* scheduler has handled was followed by a progress line, also when the flag
\* was set by then.
C28_ProgressForEveryCompletion ==
    (max_workers > 1 /\ pc \in {"pool_wait", "finish", "done"}) =>
        Cardinality(ProgressLines(stdout)) = Cardinality(HandledCompletions)

\* C28 (amended) -- Progress reporting in pooled mode: when the scheduler has
\* recorded the result of a completed task and printed its group, it clears
\* the group and computes the progress summary; it prints the progress line
\* with that summary (and the elapsed time) if the flag is not set at that
\* moment, and prints no progress line if the flag is set.
C28_ProgressUnlessAborted ==
    [][ (pc = "pool_clear" /\ pc' = "pool_wait") =>
          /\ ret[cur] # "none" \/ Skipped(cur)
          /\ repo_statuses[repositories[cur]].status \in Terminal
          /\ flushed'[cur] = flushed[cur] + 1
          /\ IF stop_event
             THEN ProgressLines(stdout') = ProgressLines(stdout)
             ELSE /\ Len(stdout') = Len(stdout) + 1
                  /\ stdout'[Len(stdout')] =
                        ProgressLine(get_current_progress_summary(repo_statuses',
                                         initial_total_repos_count'))
                  /\ \A k \in 1..Len(stdout) : stdout'[k] = stdout[k]
      ]_vars

\* Two completions were handled: the first before the flag was set, with a
\* progress line, the second after, without one.
C28_Witness ==
    /\ max_workers > 1
    /\ stop_event
    /\ pc = "pool_wait"
    /\ Cardinality(HandledCompletions) = 2
    /\ Cardinality(ProgressLines(stdout)) = 1

\* ------------------------------------------------------- failure messages
\* The scheduler handled the completion of position p as a failure and the
\* repository ends the run as failed.
EndsFailed(p) ==
    /\ flushed[p] > 0
    /\ Skipped(p) \/ ret[p] \in {"false", "raise"}
    /\ repo_statuses[repositories[p]].status = "failed"

\* The texts that tell of a failure of a task: the operation's own messages,
\* the worker's closing message (line 138) and the error messages of lines
\* 147, 204 and 247.
FailureTexts ==
    {"operation", "Repository processing ended", "Error processing repository"}

\* The console carries a failure message of the task at position p.
FailurePrinted(p) ==
    \E k \in 1..Len(stdout) :
        stdout[k].src = p /\ stdout[k].txt \in FailureTexts

\* In sequential mode the scheduler adds no message of its own when the
\* operation returns False: the message is the operation's.
LeftToOperation(p) == max_workers = 1 /\ ret[p] = "false"

\* C29 -- Every failure is logged: when process_repositories has returned,
\* for every repository that ends as failed a message about the failure of
\* its task was printed, also when the task was skipped after an abort.
C29_EveryFailureLogged ==
    pc = "done" =>
        \A p \in Positions :
            (EndsFailed(p) /\ ~LeftToOperation(p)) => FailurePrinted(p)

\* The part of C29 that is the operation's: a task that returns False has
\* logged its closing failure message.
FalseIsLogged ==
    op_result = "false" => "Some operations failed" \in op_log

\* ------------------------------------------------------------ liveness
\* C26 -- Hang isolation: in pooled mode (two workers or more) with one
\* operation that never returns, every other submitted task is handled in
\* the end: its operation was executed (or the task was skipped because the
\* flag was set), its result was recorded and its group flushed. In
\* sequential mode no repository after the hanging one ever starts.
C26_HangIsolation ==
    /\ \A p \in 1..LiveMaxRepos :
          (p \in Positions /\ max_workers >= 2 /\ p # hung /\ wpc[p] # "none")
              ~> (/\ p \in Positions
                  /\ flushed[p] > 0
                  /\ ret[p] # "none" \/ (stop_event /\ Skipped(p)))
    /\ [](max_workers = 1 =>
             \A q \in Positions : q > hung => opStart[q] = "none")

\* The first operation hangs; the two other repositories were executed by the
\* other worker and handled, with no abort.
C26_Witness ==
    /\ max_workers = 2
    /\ Len(repositories) = 3
    /\ hung = 1
    /\ wpc[1] = "op"
    /\ ~stop_event
    /\ ret[2] # "none" /\ flushed[2] > 0
    /\ ret[3] # "none" /\ flushed[3] > 0
    /\ repo_statuses["r2"].status \in Terminal
    /\ repo_statuses["r3"].status \in Terminal

\* A step of the listener thread.
ListenerStep ==
    \/ stop_event' # stop_event
    \/ listener' # listener
    \/ stdin # "none" /\ stdin' = "none"

\* C27 -- Abort listener: when the terminal has delivered 'q' or the end of
\* the input to the running listener, the flag is set in the end (unless
\* process_repositories returns first and the program ends); a step of the
\* listener changes neither the status map nor a log group.
C27_AbortListener ==
    /\ (listener = "listening" /\ isatty /\ stdin \in {"q", "eof"})
          ~> (stop_event \/ pc = "done")
    /\ [][ListenerStep =>
             UNCHANGED << repo_statuses, initial_total_repos_count,
                          all_group_logs >>]_vars

\* The end of the input was delivered while an operation that hangs was
\* running, and the listener has set the flag.
C27_Witness ==
    /\ isatty
    /\ stdin = "eof"
    /\ listener = "stopped"
    /\ stop_event
    /\ hung # 0
    /\ InOperation(hung)

\* ------------------------------------------------- delete, then set again
\* The delete command of the task for item n of type k, as a set of at most
\* one position of gh_calls, and likewise its set command.
DeleteCallFor(k, n) == { x \in CallsOf("delete", k) : gh_calls[x].name = n }
SetCallFor(k, n) == { x \in CallsOf("set", k) : gh_calls[x].name = n }

\* The list commands of the fetch after the deletions.
SecondFetchCalls ==
    { x \in 1..Len(gh_calls) :
        /\ gh_calls[x].cmd = "list"
        /\ \E y \in 1..(x - 1) :
              gh_calls[y].cmd = "list" /\ gh_calls[y].type = gh_calls[x].type }

\* Every delete command of the task comes before the list commands of the
\* second fetch and before every set command.
DeletesComeFirst ==
    \A x \in 1..Len(gh_calls) :
        gh_calls[x].cmd = "delete" =>
            \A y \in 1..Len(gh_calls) :
                (y \in SecondFetchCalls \/ gh_calls[y].cmd = "set") => x < y

\* Item n of type k is in the delete list and in the set request, existed
\* when the task began, and its delete command succeeded; force is not given.
DeletedToBeSet(k, n) ==
    /\ ~force
    /\ n \in ToSet(delete_list[k])
    /\ n \in Requested(k)
    /\ Listed(k, 1)
    /\ n \in ListCall(k, 1).held
    /\ \E x \in DeleteCallFor(k, n) : gh_calls[x].outcome = "ok"

\* C31 (as stated) -- Delete-then-set on the same name: all delete commands
\* come before the second fetch and before all set commands; hence an item
\* that is in the delete list and in the set request, exists at the start
\* and is deleted with success, force not given, is not skipped: when the
\* task has returned a set command for it was issued and it exists with the
\* requested value.
C31_DeleteThenSet ==
    /\ DeletesComeFirst
    /\ HasReturned =>
          \A k \in Kinds : \A n \in ItemNames[k] :
              DeletedToBeSet(k, n) =>
                  /\ SetCallFor(k, n) # {}
                  /\ repo_content[k][n] = to_set[k][n]

\* C31 (amended) -- the same, with the outcome of the set command taken into
\* account: when the task has returned, the set command for the item was
\* issued, and the item exists with the requested value if that command
\* succeeded and does not exist if it failed.
C31_DeleteThenSetAttempted ==
    /\ DeletesComeFirst
    /\ HasReturned =>
          \A k \in Kinds : \A n \in ItemNames[k] :
              DeletedToBeSet(k, n) =>
                  /\ SetCallFor(k, n) # {}
                  /\ \A x \in SetCallFor(k, n) :
                        /\ gh_calls[x].outcome = "ok"
                              => repo_content[k][n] = to_set[k][n]
                        /\ gh_calls[x].outcome = "fail"
                              => repo_content[k][n] = "absent"

\* Secret A was listed, deleted and set again with the requested value by a
\* task without force that returned True.
C31_Witness ==
    /\ op_result = "true"
    /\ DeletedToBeSet("secret", "A")
    /\ \E x \in SetCallFor("secret", "A") : gh_calls[x].outcome = "ok"
    /\ repo_content["secret"]["A"] = NewValue
    /\ "A" \notin Fetched(ListCall("secret", 2))

\* -------------------------------------------------------------- two runs
\* Every gh command of both calls ended with exit status 0.
AllCallsSucceeded ==
    \A x \in 1..Len(gh_calls) : gh_calls[x].outcome = "ok"

\* The second call has returned.
SecondRunOver == run = 2 /\ rpc = "returned"

\* C32 -- Idempotence of the per-repository task: whatever the repository
\* holds and whatever the delete lists, the set requests and force are, when
\* every gh command succeeds a second call of process_single_repository
\* leaves the secrets and variables, names and values, as the first call
\* left them, and both calls return True.
C32_Idempotent ==
    /\ (run = 2 /\ AllCallsSucceeded) => first_result = "true"
    /\ (SecondRunOver /\ AllCallsSucceeded) =>
          /\ repo_content = first_content
          /\ op_result = "true"

\* The second call deleted secret A and set it again, as the first call did,
\* skipped secret B, and left the repository as it found it.
C32_Witness ==
    /\ SecondRunOver
    /\ AllCallsSucceeded
    /\ ~force
    /\ Cardinality(DeleteCallFor("secret", "A")) = 2
    /\ Cardinality(SetCallFor("secret", "A")) = 2
    /\ to_set["secret"]["B"] = NewValue
    /\ SetCallFor("secret", "B") = {}
    /\ repo_content["secret"] = [A |-> NewValue, B |-> OldValue]
    /\ repo_content = first_content

\* ------------------------------------------------------ failures of items
\* The task is over: it has returned a value or has been ended by sys.exit.
TaskOver == rpc = "returned"

\* Every list command of the task found the gh executable.
ListsFoundGh ==
    \A x \in 1..Len(gh_calls) :
        gh_calls[x].cmd = "list" => gh_calls[x].outcome # "nogh"

\* Every name of the delete list that the first fetch returned has got its
\* delete command.
AllDeletesIssued ==
    \A k \in Kinds :
        /\ Listed(k, 1)
        /\ ToSet(delete_list[k]) \cap Fetched(ListCall(k, 1))
              \subseteq NamesOf(CallsOf("delete", k))

\* Every requested item has got its set command or has been skipped because
\* the second fetch returned its name and force is not given.
AllSetsIssuedOrSkipped ==
    \A k \in Kinds :
        /\ Listed(k, 2)
        /\ \A n \in Requested(k) :
              \/ SetCallFor(k, n) # {}
              \/ ~force /\ n \in Fetched(ListCall(k, 2))

\* C33 -- Per-item failures do not short-circuit: a delete or set command
\* that fails does not stop the task. Whatever way the delete and set
\* commands ended, when the task is over every name in the delete
\* intersection has got its delete command and every requested item has been
\* set or skipped.
C33_NoShortCircuit ==
    (TaskOver /\ ListsFoundGh) =>
        /\ AllDeletesIssued
        /\ AllSetsIssuedOrSkipped

\* The same when every delete and set command found the gh executable.
NoShortCircuitOnExitStatus ==
    (TaskOver /\ ~GhMissing) =>
        /\ AllDeletesIssued
        /\ AllSetsIssuedOrSkipped

\* A task went on after a failed delete command and after a failed set
\* command and went through every item.
NoShortCircuitSeen ==
    /\ op_result = "false"
    /\ \E x \in DeleteCallFor("secret", "A") : gh_calls[x].outcome = "fail"
    /\ \E x \in DeleteCallFor("secret", "B") : gh_calls[x].outcome = "ok"
    /\ \E x \in SetCallFor("secret", "A") : gh_calls[x].outcome = "fail"
    /\ \E x \in SetCallFor("secret", "B") : gh_calls[x].outcome = "ok"
    /\ \E x \in SetCallFor("variable", "V") : gh_calls[x].outcome = "ok"

\* ----------------------------------------------------------- lock discipline
\* The threads that wait for a lock of the two trackers or hold one.
WaitsFor(t, l) == tpc[t] = "waiting" /\ LockOf(tcall[t].op) = l

HoldsTrackerLock(t) == status_lock = t \/ log_lock = t

\* A set of threads each of which waits for a tracker lock that a thread of
\* the set holds.
Deadlocked(S) ==
    /\ S # {}
    /\ \A t \in S :
          \E l \in {"status", "log"} : WaitsFor(t, l) /\ Holder(l) \in S

\* C34 -- Lock discipline: in every reachable state no thread holds the
\* status lock or the log lock while a gh command it started runs, no thread
\* waits for one of the two locks while it holds one of them, and no set of
\* threads is deadlocked on the two locks.
C34_LockDiscipline ==
    /\ \A t \in LockThreads : tpc[t] = "external" => ~HoldsTrackerLock(t)
    /\ \A t \in LockThreads :
          (WaitsFor(t, "status") \/ WaitsFor(t, "log")) => ~HoldsTrackerLock(t)
    /\ \A S \in SUBSET LockThreads : ~Deadlocked(S)

\* A worker runs a gh command while the scheduler holds the status lock, the
\* other worker holds the log lock and the listener waits for the log lock.
C34_Witness ==
    /\ tpc[2] = "external"
    /\ status_lock = 1
    /\ log_lock = 3
    /\ WaitsFor(MaxWorkers + 2, "log")

\* ------------------------------------------------------------ termination
\* process_repositories has returned: no worker thread runs a task and the
\* completion of every submitted task has been handled.
HasEnded ==
    /\ pc = "done"
    /\ \A p \in Positions : wpc[p] \in {"none", "finished"}
    /\ \A p \in Submitted : flushed[p] > 0

InProgressCount ==
    get_current_progress_summary(repo_statuses, initial_total_repos_count)[3]

\* The tasks that have ended and whose completion the scheduler has not yet
\* recorded in the status map.
AwaitingHandling == { p \in Positions : wpc[p] = "finished" /\ p \notin Handled }

\* C36 (as stated) -- in pooled mode with width N the in_progress count never
\* exceeds N, also while the scheduler is handling earlier completions.
C36_InProgressAtMostWidth ==
    max_workers > 1 => InProgressCount <= max_workers

\* C36 (amended) -- in pooled mode a repository stays InProgress from the
\* start of its task until the scheduler records its result: the in_progress
\* count is at most the number of running tasks, which is at most N, plus the
\* number of ended tasks whose completion is not handled yet.
C36_InProgressUntilHandled ==
    max_workers > 1 =>
        /\ InProgressCount <= Cardinality(Active) + Cardinality(AwaitingHandling)
        /\ Cardinality(Active) <= max_workers
        /\ InProgressCount <= Len(repositories)

\* Width 2, three repositories InProgress: two tasks run and the task that
\* ended first waits for the scheduler.
C36_Witness ==
    /\ max_workers = 2
    /\ InProgressCount = 3
    /\ Cardinality(Active) = 2
    /\ Cardinality(AwaitingHandling) = 1

\* -------------------------------------------------------- clean end state
\* C37 -- Clean end state: when process_repositories has returned, aborted or
\* not and in either mode, no repository has the lifecycle in_progress and
\* the message list of every log group is empty.
C37_CleanEnd ==
    pc = "done" =>
        /\ \A n \in DOMAIN repo_statuses : repo_statuses[n].status # "in_progress"
        /\ \A n \in DOMAIN all_group_logs : all_group_logs[n] = << >>

\* A pooled run has returned after an abort: a task that had appended
\* messages was handled, another repository was never submitted.
C37_Witness ==
    /\ pc = "done"
    /\ max_workers > 1
    /\ stop_event
    /\ \E p \in Positions : flushed[p] > 0 /\ nlogs[p] > 0 /\ ret[p] = "true"
    /\ \E p \in Positions : wpc[p] = "none"

\* -------------------------------------------------------- mode equivalence
\* The run has returned and the flag was never set.
EndedWithoutAbort == pc = "done" /\ ~stop_event

\* The outcome of the operation is fixed per repository: the copies of a
\* repeated name ended the same way.
OutcomePerRepository ==
    \A p, q \in Positions : repositories[p] = repositories[q] => ret[p] = ret[q]

\* The status map the outcomes determine: a repository whose operation
\* returned True is completed, any other one has failed.
StatusOfOutcomes ==
    [n \in { repositories[p] : p \in Positions } |->
        LET o == ret[CHOOSE p \in Positions : repositories[p] = n]
        IN [success |-> o = "true",
            status |-> IF o = "true" THEN "completed" ELSE "failed"]]

\* C38 -- Mode equivalence and schedule independence: after a run without
\* abort the status map is the one the list and the outcomes of its
\* repositories determine, whatever the width is and, in pooled mode, in
\* whatever order the tasks were run and completed.
C38_ModeEquivalence ==
    (EndedWithoutAbort /\ OutcomePerRepository) =>
        repo_statuses = StatusOfOutcomes

\* A pooled run of three repositories has ended without abort; the last task
\* completed first, one operation returned False and one raised.
C38_Witness ==
    /\ EndedWithoutAbort
    /\ OutcomePerRepository
    /\ max_workers = 2
    /\ Len(repositories) = 3
    /\ ret[1] = "true" /\ ret[2] = "false" /\ ret[3] = "raise"
    /\ \E a, b \in 1..Len(stdout) :
          /\ a < b
          /\ stdout[a].src = 3
          /\ stdout[b].src = 1

====
